---- MODULE Spec2Model ----
(***************************************************************************)
(* Model of the Compact SSR (CSSR) decoder of QZS L6 Tool,                 *)
(* src/python/libssr.py, class Ssr.                                        *)
(*                                                                         *)
(* A payload is a sequence of bits (0/1), as a bitstring.BitArray is.      *)
(* Every decoder is an operator from (session attributes, payload, pos)    *)
(* to a frame [st, wr, pos, exc, recs]:                                    *)
(*   st   the attributes of the session as seen after the call,            *)
(*   wr   the names of the attributes the call assigned (self.x = ...),    *)
(*   pos  the value returned (0: the code's "return 0"),                   *)
(*   exc  "" or the name of the exception the call raised,                 *)
(*   recs the values the call decoded (what its trace line shows).         *)
(*                                                                         *)
(* bitstring semantics relied on (bitstring 4.x, the release line that has *)
(* the .u and .i properties libeph.py reads with): a slice past the end is *)
(* cut short, never an error; .uint and .int of an empty slice raise       *)
(* InterpretError; indexing past the end raises IndexError; a bitstring is *)
(* true iff it is not empty, whatever its bits; a bitstring compared with  *)
(* an integer is never equal (no bitstring is made from an integer).       *)
(***************************************************************************)
EXTENDS Integers, Sequences, FiniteSets, TLC

\* ------------------------------------------------------------------ bits

Min(a, b) == IF a < b THEN a ELSE b

RECURSIVE Pow2(_)
Pow2(n) == IF n = 0 THEN 1 ELSE 2 * Pow2(n - 1)

\* payload[a:b]: Python slicing, cut at the end of the payload
Slice(p, a, b) == SubSeq(p, a + 1, Min(b, Len(p)))

\* bits.uint (the caller raises InterpretError on an empty slice)
RECURSIVE Uint(_)
Uint(b) ==
    IF Len(b) = 0 THEN 0
    ELSE 2 * Uint(SubSeq(b, 1, Len(b) - 1)) + b[Len(b)]

\* bits.int: two's complement (for a set sign bit, minus the value of the
\* inverted bits, minus one)
Sint(b) ==
    IF b[1] = 1 THEN -Uint([i \in 1..Len(b) - 1 |-> 1 - b[i + 1]]) - 1
    ELSE Uint(b)

\* '0b1' in payload
ContainsOne(p) == \E i \in 1..Len(p) : p[i] = 1

\* bool(bits): true iff the bitstring is not empty, whatever its bits
Truthy(b) == Len(b) > 0

\* bitstring.BitArray('0b1') * n
Ones(n) == [i \in 1..n |-> 1]

\* indexes (0-based) of the set bits of a bit sequence, ascending:
\* for i, val in enumerate(bits): if val: ...
RECURSIVE SetBitsFrom(_, _)
SetBitsFrom(b, i) ==
    IF i > Len(b) THEN <<>>
    ELSE IF b[i] = 1 THEN <<i - 1>> \o SetBitsFrom(b, i + 1)
    ELSE SetBitsFrom(b, i + 1)

SetBits(b) == SetBitsFrom(b, 1)

\* ---------------------------------------------------------------- tables

INVALID == 0

CSSR_MSGNUM == 4073

SatSysOfId == <<"G", "R", "E", "C", "J", "S">>

\* a variant of gnssid2satsys that takes every undefined id for GPS
gnssid2satsysLenient(gnssid) ==
    IF gnssid >= 0 /\ gnssid <= 5 THEN SatSysOfId[gnssid + 1] ELSE "G"

\* gnssid2satsys: "" stands for the raised Exception('undefined gnssid')
gnssid2satsys(gnssid) ==
    IF gnssid >= 0 /\ gnssid <= 5 THEN SatSysOfId[gnssid + 1] ELSE ""

SigNamesG == << "L1 C/A", "L1 P", "L1 Z-tracking", "L1C(D)", "L1C(P)",
    "L1C(D+P)", "L2 CM", "L2 CL", "L2 CM+CL", "L2 P", "L2 Z-tracking",
    "L5 I", "L5 Q", "L5 I+Q", "", "" >>
SigNamesR == << "G1 C/A", "G1 P", "G2 C/A", "G2 P", "G1a(D)", "G1a(P)",
    "G1a(D+P)", "G2a(D)", "G2a(P)", "G2a(D+P)", "G3 I", "G3 Q",
    "G3 I+Q", "", "", "", "" >>
SigNamesE == << "E1 B", "E1 C", "E1 B+C", "E5a I", "E5a Q", "E5a I+Q",
    "E5b I", "E5b Q", "E5b I+Q", "E5 I", "E5 Q", "E5 I+Q",
    "E6 B", "E6 C", "E6 B+C", "" >>
SigNamesC == << "B1 I", "B1 Q", "B1 I+Q", "B3 I", "B3 Q", "B3 I+Q",
    "B2 I", "B2 Q", "B2 I+Q", "", "", "", "", "", "", "", "" >>
SigNamesJ == << "L1 C/A", "L1 L1C(D)", "L1 L1C(P)", "L1 L1C(D+P)",
    "L2 L2C(M)", "L2 L2C(L)", "L2 L2C(M+L)", "L5 I", "L5 Q",
    "L5 I+Q", "", "", "", "", "", "" >>
SigNamesS == << "L1 C/A", "L5 I", "L5 Q", "L5 I+Q", "", "", "", "", "", "",
    "", "", "", "", "", "", "" >>

\* sigmask2signame for the six systems gnssid2satsys returns
sigmask2signame(satsys, sigmask) ==
    CASE satsys = "G" -> SigNamesG[sigmask + 1]
      [] satsys = "R" -> SigNamesR[sigmask + 1]
      [] satsys = "E" -> SigNamesE[sigmask + 1]
      [] satsys = "C" -> SigNamesC[sigmask + 1]
      [] satsys = "J" -> SigNamesJ[sigmask + 1]
      [] satsys = "S" -> SigNamesS[sigmask + 1]

\* ----------------------------------------------------------------- frames

\* self.a = x; self.b = y; ...  (ch is a record of the assigned attributes)
Assign(st, ch) == [k \in DOMAIN st |-> IF k \in DOMAIN ch THEN ch[k] ELSE st[k]]

Frame(st, wr, pos, exc, recs) ==
    [st |-> st, wr |-> wr, pos |-> pos, exc |-> exc, recs |-> recs]

\* the frame of a call that assigns ch and returns pos
Return(st, ch, pos, recs) == Frame(Assign(st, ch), DOMAIN ch, pos, "", recs)

\* the frame of a call that assigns nothing and returns pos
ReturnPlain(st, pos, recs) == Frame(st, {}, pos, "", recs)

\* the frame of a call that raises exc having assigned nothing
RaisePlain(st, exc) == Frame(st, {}, -1, exc, <<>>)

\* the frame of a call that raises exc having assigned ch
RaiseAfter(st, ch, exc) == Frame(Assign(st, ch), DOMAIN ch, -1, exc, <<>>)

\* dict[k] = v
DictPut(d, k, v) == [x \in DOMAIN d \cup {k} |-> IF x = k THEN v ELSE d[x]]

\* {}
EmptyDict == [x \in {} |-> <<>>]

\* ----------------------------------------------------------------- header

\* variant: the length check before the last three header fields is one bit
\* too lenient
HeadTailOneBitShort(st, payload, pos, ch) ==
    IF Len(payload) < pos + 4 + 1 + 3 THEN Return(st, ch, 0, <<>>)
    ELSE Return(st,
                [interval |-> Uint(Slice(payload, pos, pos + 4)),
                 mmi      |-> Slice(payload, pos + 4, pos + 5),
                 iod      |-> Uint(Slice(payload, pos + 5, pos + 9))] @@ ch,
                pos + 9, <<>>)

\* the tail of decode_cssr_head: update interval, multiple message
\* indicator, issue of data (the header fields after the epoch)
HeadTail(st, payload, pos, ch) ==
    IF Len(payload) < pos + 4 + 1 + 4 THEN Return(st, ch, 0, <<>>)
    ELSE Return(st,
                [interval |-> Uint(Slice(payload, pos, pos + 4)),
                 mmi      |-> Slice(payload, pos + 4, pos + 5),
                 iod      |-> Uint(Slice(payload, pos + 5, pos + 9))] @@ ch,
                pos + 9, <<>>)

\* a variant of NullData that counts bytes
NullDataBytes(st, len_payload) ==
    [stat_bnull |-> st.stat_bnull + len_payload \div 8, subtype |-> 0]

\* what decode_cssr_head assigns for null data (zero padding, or a message
\* number other than 4073): "self.stat_bnull += len(payload.bin);
\* self.subtype = 0"
NullData(st, len_payload) ==
    [stat_bnull |-> st.stat_bnull + len_payload, subtype |-> 0]

decode_cssr_head(st, payload) ==
    LET len_payload == Len(payload)
        msgnum      == Uint(Slice(payload, 0, 12))
        subtype     == Uint(Slice(payload, 12, 16))
    IN
    IF ~ContainsOne(payload) THEN
        Return(st, NullData(st, len_payload), 0, <<>>)
    ELSE IF len_payload < 12 THEN
        Return(st, [msgnum |-> 0, subtype |-> 0], 0, <<>>)
    ELSE IF msgnum # CSSR_MSGNUM THEN
        Return(st, [msgnum |-> msgnum] @@ NullData(st, len_payload), 0, <<>>)
    ELSE IF len_payload < 12 + 4 THEN
        Return(st, [msgnum |-> msgnum, subtype |-> 0], 0, <<>>)
    ELSE IF subtype = 1 THEN
        IF len_payload < 16 + 20 THEN
            Return(st, [msgnum |-> msgnum, subtype |-> subtype], 0, <<>>)
        ELSE HeadTail(st, payload, 36,
                      [msgnum |-> msgnum, subtype |-> subtype,
                       epoch |-> Uint(Slice(payload, 16, 36))])
    ELSE IF subtype = 10 THEN
        Return(st, [msgnum |-> msgnum, subtype |-> subtype], 16, <<>>)
    ELSE
        IF len_payload < 16 + 12 THEN
            Return(st, [msgnum |-> msgnum, subtype |-> subtype], 0, <<>>)
        ELSE HeadTail(st, payload, 28,
                      [msgnum |-> msgnum, subtype |-> subtype,
                       hepoch |-> Uint(Slice(payload, 16, 28))])

\* ------------------------------------------------------------------- mask

\* the entry one pass of the loop "for ignss in range(ngnss)" builds from
\* the fields read at pos: system t_satsys, satellites sats and signals
\* sigs (the set bits of the two masks)
MaskEntryOf(payload, pos, ssr_type, t_satsys, sats, sigs, cmavail) ==
    LET ncell  == Len(sats) * Len(sigs)
        pos_cm == IF cmavail THEN pos + 61 + ncell ELSE pos + 61
    IN [exc |-> "",
        pos |-> IF ssr_type = "has" THEN pos_cm + 3 ELSE pos_cm,
        satsys |-> t_satsys, nsatmask |-> Len(sats), nsigmask |-> Len(sigs),
        cellmask |-> IF cmavail THEN Slice(payload, pos + 61, pos + 61 + ncell)
                     ELSE Ones(ncell),
        gsys |-> [i \in 1..Len(sats) |-> <<t_satsys, sats[i] + 1>>],
        gsig |-> [i \in 1..Len(sigs) |-> sigmask2signame(t_satsys, sigs[i])],
        nm |-> IF ssr_type = "has" THEN Uint(Slice(payload, pos_cm, pos_cm + 3))
               ELSE 0]

\* one pass of the loop "for ignss in range(ngnss)" of _decode_mask, reading
\* at pos: the entry it builds and the position after it, or the exception
MaskEntry(payload, pos, ssr_type) ==
    LET none == [exc |-> "", pos |-> pos, satsys |-> "", nsatmask |-> 0,
                 nsigmask |-> 0, cellmask |-> <<>>, gsys |-> <<>>,
                 gsig |-> <<>>, nm |-> 0]
        e    == MaskEntryOf(payload, pos, ssr_type,
                    gnssid2satsys(Uint(Slice(payload, pos, pos + 4))),
                    SetBits(Slice(payload, pos + 4, pos + 44)),
                    SetBits(Slice(payload, pos + 44, pos + 60)),
                    Truthy(Slice(payload, pos + 60, pos + 61)))
    IN
    \* payload[pos:pos+4].uint of no bits
    IF Len(payload) <= pos THEN [none EXCEPT !.exc = "InterpretError"]
    ELSE IF gnssid2satsys(Uint(Slice(payload, pos, pos + 4))) = ""
         THEN [none EXCEPT !.exc = "Exception"]
    \* nm = payload[pos:pos+3].uint of no bits
    ELSE IF ssr_type = "has" /\ Len(payload) <= e.pos - 3
         THEN [none EXCEPT !.exc = "InterpretError"]
    ELSE e

\* the lists and dicts of the loop after the pass that built e
MaskAdd(acc, e) ==
    [exc      |-> e.exc,
     pos      |-> e.pos,
     satsys   |-> IF e.exc = "" THEN Append(acc.satsys, e.satsys)
                  ELSE acc.satsys,
     nsatmask |-> Append(acc.nsatmask, e.nsatmask),
     nsigmask |-> Append(acc.nsigmask, e.nsigmask),
     cellmask |-> Append(acc.cellmask, e.cellmask),
     gsys     |-> IF e.exc = "" THEN DictPut(acc.gsys, e.satsys, e.gsys)
                  ELSE acc.gsys,
     gsig     |-> IF e.exc = "" THEN DictPut(acc.gsig, e.satsys, e.gsig)
                  ELSE acc.gsig]

\* the loop "for ignss in range(ngnss)": acc holds the lists and dicts built
\* so far, the position and the exception that ended the loop
RECURSIVE MaskLoop(_, _, _, _)
MaskLoop(payload, ssr_type, n, acc) ==
    IF n = 0 \/ acc.exc # "" THEN acc
    ELSE MaskLoop(payload, ssr_type, n - 1,
                  MaskAdd(acc, MaskEntry(payload, acc.pos, ssr_type)))

\* the trace loop of _decode_mask (and of every cell-iterating decoder)
\* reads self.cellmask[i][pos_mask] for each satellite and signal of
\* self.gsys[satsys], self.gsig[satsys]: IndexError when cellmask[i] is shorter
CellIndexError(st) ==
    \E i \in 1..Len(st.satsys) :
        Len(st.gsys[st.satsys[i]]) * Len(st.gsig[st.satsys[i]])
            > Len(st.cellmask[i])

\* the part of _decode_mask after the loop, which ended as acc at endpos:
\* the mask is stored, the trace loop walks it, the counters are reset
MaskStore(st, acc, mask, endpos) ==
    IF acc.exc # "" THEN RaisePlain(st, acc.exc)
    ELSE IF CellIndexError(Assign(st, mask)) THEN RaiseAfter(st, mask, "IndexError")
    ELSE Return(st, [stat_bsat |-> 0, stat_bsig |-> 0, stat_both |-> endpos,
                     stat_bnull |-> 0] @@ mask, endpos, <<>>)

MaskOfLoop(st, acc, ssr_type) ==
    MaskStore(st, acc,
              [satsys |-> acc.satsys, nsatmask |-> acc.nsatmask,
               nsigmask |-> acc.nsigmask, cellmask |-> acc.cellmask,
               gsys |-> acc.gsys, gsig |-> acc.gsig],
              IF ssr_type = "has" THEN acc.pos + 6 ELSE acc.pos)

_decode_mask(st, payload, pos, ssr_type) ==
    IF Len(payload) < pos + 4 THEN ReturnPlain(st, 0, <<>>)
    ELSE IF Len(payload) < 49 + 61 * Uint(Slice(payload, pos, pos + 4))
         THEN ReturnPlain(st, 0, <<>>)
    ELSE MaskOfLoop(st,
            MaskLoop(payload, ssr_type, Uint(Slice(payload, pos, pos + 4)),
                [exc |-> "", pos |-> pos + 4, satsys |-> <<>>,
                 nsatmask |-> <<>>, nsigmask |-> <<>>, cellmask |-> <<>>,
                 gsys |-> EmptyDict, gsig |-> EmptyDict]),
            ssr_type)

decode_cssr_st1(st, payload, pos) == _decode_mask(st, payload, pos, "cssr")

decode_has_mask(st, has_msg, pos) == _decode_mask(st, has_msg, pos, "has")

\* ------------------------------------------------------- satellite lists

\* the satellites in the order of "for satsys in self.satsys: for gsys in
\* self.gsys[satsys]": i, j are the (1-based) places in the two lists
RECURSIVE SatListFrom(_, _)
SatListFrom(st, i) ==
    IF i > Len(st.satsys) THEN <<>>
    ELSE [j \in 1..Len(st.gsys[st.satsys[i]]) |->
             [i |-> i, j |-> j, satsys |-> st.satsys[i],
              gsys |-> st.gsys[st.satsys[i]][j]]]
         \o SatListFrom(st, i + 1)

SatList(st) == SatListFrom(st, 1)

\* raw * scale, unless raw is the sentinel: then INVALID. num is the scale
\* in units of its own last decimal digit (0.0016 m is 16 units of 0.1 mm)
Scaled(raw, sentinel, num) == IF raw # sentinel THEN raw * num ELSE INVALID

\* ------------------------------------------------------------- subtype 2

\* variant: the IODE of every system has 8 bits
RECURSIVE St2LoopOneWidth(_, _, _, _, _)
St2LoopOneWidth(payload, sats, k, pos, recs) ==
    IF k > Len(sats) THEN [pos |-> pos, recs |-> recs]
    ELSE LET bw       == 8
             i_radial == Sint(Slice(payload, pos + bw, pos + bw + 15))
             i_along  == Sint(Slice(payload, pos + bw + 15, pos + bw + 28))
             i_cross  == Sint(Slice(payload, pos + bw + 28, pos + bw + 41))
         IN
         IF Len(payload) < pos + bw + 15 + 13 + 13
         THEN [pos |-> 0, recs |-> <<>>]
         ELSE St2LoopOneWidth(payload, sats, k + 1, pos + bw + 41,
                Append(recs,
                  [gsys     |-> sats[k].gsys,
                   iode     |-> Uint(Slice(payload, pos, pos + bw)),
                   i_radial |-> i_radial,
                   i_along  |-> i_along,
                   i_cross  |-> i_cross,
                   d_radial |-> Scaled(i_radial, -16384, 16),
                   d_along  |-> Scaled(i_along,  -16384, 64),
                   d_cross  |-> Scaled(i_cross,  -16384, 64)]))

RECURSIVE St2Loop(_, _, _, _, _)
St2Loop(payload, sats, k, pos, recs) ==
    IF k > Len(sats) THEN [pos |-> pos, recs |-> recs]
    ELSE LET bw       == IF sats[k].satsys = "E" THEN 10 ELSE 8
             i_radial == Sint(Slice(payload, pos + bw, pos + bw + 15))
             i_along  == Sint(Slice(payload, pos + bw + 15, pos + bw + 28))
             i_cross  == Sint(Slice(payload, pos + bw + 28, pos + bw + 41))
         IN
         IF Len(payload) < pos + bw + 15 + 13 + 13
         THEN [pos |-> 0, recs |-> <<>>]
         ELSE St2Loop(payload, sats, k + 1, pos + bw + 41,
                Append(recs,
                  [gsys     |-> sats[k].gsys,
                   iode     |-> Uint(Slice(payload, pos, pos + bw)),
                   i_radial |-> i_radial,
                   i_along  |-> i_along,
                   i_cross  |-> i_cross,
                   d_radial |-> Scaled(i_radial, -16384, 16),
                   d_along  |-> Scaled(i_along,  -16384, 64),
                   d_cross  |-> Scaled(i_cross,  -16384, 64)]))

decode_cssr_st2(st, payload, pos) ==
    LET r == St2Loop(payload, SatList(st), 1, pos, <<>>) IN
    IF r.pos = 0 THEN ReturnPlain(st, 0, <<>>)
    ELSE Return(st, [stat_both |-> st.stat_both + pos,
                     stat_bsat |-> st.stat_bsat + (r.pos - pos)],
                r.pos, r.recs)

\* ------------------------------------------------------------- subtype 3

RECURSIVE St3Loop(_, _, _, _, _)
St3Loop(payload, sats, k, pos, recs) ==
    IF k > Len(sats) THEN [pos |-> pos, recs |-> recs]
    ELSE LET ic0 == Sint(Slice(payload, pos, pos + 15)) IN
         IF Len(payload) < pos + 15 THEN [pos |-> 0, recs |-> <<>>]
         ELSE St3Loop(payload, sats, k + 1, pos + 15,
                Append(recs, [gsys |-> sats[k].gsys, ic0 |-> ic0,
                              c0 |-> Scaled(ic0, -16384, 16)]))

\* a variant of decode_cssr_st3 that counts the header bits before it
\* finds the payload too short
decode_cssr_st3_counts_first(st, payload, pos) ==
    LET r == St3Loop(payload, SatList(st), 1, pos, <<>>) IN
    IF r.pos = 0 THEN Return(st, [stat_both |-> st.stat_both + pos], 0, <<>>)
    ELSE Return(st, [stat_both |-> st.stat_both + pos,
                     stat_bsat |-> st.stat_bsat + (r.pos - pos)],
                r.pos, r.recs)

decode_cssr_st3(st, payload, pos) ==
    LET r == St3Loop(payload, SatList(st), 1, pos, <<>>) IN
    IF r.pos = 0 THEN ReturnPlain(st, 0, <<>>)
    ELSE Return(st, [stat_both |-> st.stat_both + pos,
                     stat_bsat |-> st.stat_bsat + (r.pos - pos)],
                r.pos, r.recs)

\* ------------------------------------------------------------ cell lists

\* variant: the cells of an entry walked signal by signal (outer loop
\* signal, inner loop satellite)
CellsOfSysSignalMajor(st, i) ==
    LET satsys == st.satsys[i]
        nsat   == Len(st.gsys[satsys])
        n      == nsat * Len(st.gsig[satsys])
    IN [c \in 1..n |->
           [i |-> i, j |-> ((c - 1) % nsat) + 1, satsys |-> satsys,
            gsys |-> st.gsys[satsys][((c - 1) % nsat) + 1],
            gsig |-> st.gsig[satsys][((c - 1) \div nsat) + 1],
            pos_mask |-> c - 1,
            mask |-> IF c <= Len(st.cellmask[i]) THEN st.cellmask[i][c]
                     ELSE -1]]

\* the cells in the order of "for i, satsys in enumerate(self.satsys):
\* pos_mask = 0; for gsys in self.gsys[satsys]: for gsig in
\* self.gsig[satsys]: mask = self.cellmask[i][pos_mask]; pos_mask += 1".
\* mask is the bit read, or -1 where the read raises IndexError
CellsOfSys(st, i) ==
    LET satsys == st.satsys[i]
        nsig   == Len(st.gsig[satsys])
        n      == Len(st.gsys[satsys]) * nsig
    IN [c \in 1..n |->
           [i |-> i, j |-> ((c - 1) \div nsig) + 1, satsys |-> satsys,
            gsys |-> st.gsys[satsys][((c - 1) \div nsig) + 1],
            gsig |-> st.gsig[satsys][((c - 1) % nsig) + 1],
            pos_mask |-> c - 1,
            mask |-> IF c <= Len(st.cellmask[i]) THEN st.cellmask[i][c]
                     ELSE -1]]

RECURSIVE CellListFrom(_, _)
CellListFrom(st, i) ==
    IF i > Len(st.satsys) THEN <<>>
    ELSE CellsOfSys(st, i) \o CellListFrom(st, i + 1)

CellList(st) == CellListFrom(st, 1)

\* the loop "for satsys in self.satsys: ngsys = len(self.gsys[satsys]);
\* if len_payload < pos + ngsys: return 0; svmask[satsys] = payload[pos:
\* pos+ngsys]; pos += ngsys": pos 0 stands for the return 0
RECURSIVE SvmaskLoop(_, _, _, _, _)
SvmaskLoop(st, payload, i, pos, svmask) ==
    IF i > Len(st.satsys) THEN [pos |-> pos, svmask |-> svmask]
    ELSE LET satsys == st.satsys[i]
             ngsys  == Len(st.gsys[satsys])
         IN
         IF Len(payload) < pos + ngsys THEN [pos |-> 0, svmask |-> svmask]
         ELSE SvmaskLoop(st, payload, i + 1, pos + ngsys,
                DictPut(svmask, satsys, Slice(payload, pos, pos + ngsys)))

\* variant: the masks are read and every satellite takes part
ReadSvmaskAllSet(st, payload, pos) ==
    LET r == SvmaskLoop(st, payload, 1, pos, EmptyDict) IN
    [pos |-> r.pos,
     svmask |-> [k \in DOMAIN r.svmask |->
                    [i \in DOMAIN r.svmask[k] |-> 1]]]

ReadSvmask(st, payload, pos) == SvmaskLoop(st, payload, 1, pos, EmptyDict)

\* ------------------------------------------------------------- subtype 4

\* the loop of _decode_code_bias that reads one 11-bit bias per active cell
RECURSIVE CodeBiasLoop(_, _, _, _, _)
CodeBiasLoop(payload, cells, k, pos, recs) ==
    IF k > Len(cells) THEN [pos |-> pos, recs |-> recs]
    ELSE IF cells[k].mask = 0
         THEN CodeBiasLoop(payload, cells, k + 1, pos, recs)
    ELSE LET icb == Sint(Slice(payload, pos, pos + 11)) IN
         CodeBiasLoop(payload, cells, k + 1, pos + 11,
            Append(recs, [gsys |-> cells[k].gsys, gsig |-> cells[k].gsig,
                          pos_mask |-> cells[k].pos_mask, at |-> pos,
                          icb |-> icb, cb |-> Scaled(icb, -1024, 2)]))

_decode_code_bias(st, payload, pos, ssr_type) ==
    LET cells   == CellList(st)
        nsigsat == Cardinality({k \in 1..Len(cells) : cells[k].mask = 1})
        pos_vi  == IF ssr_type = "has" THEN pos + 4 ELSE pos
        r       == CodeBiasLoop(payload, cells, 1, pos_vi, <<>>)
    IN
    IF \E k \in 1..Len(cells) : cells[k].mask = -1
    THEN RaisePlain(st, "IndexError")
    ELSE IF ssr_type = "has" /\ Len(payload) < pos + 4
    THEN ReturnPlain(st, 0, <<>>)
    ELSE IF Len(payload) < pos_vi + 11 * nsigsat THEN ReturnPlain(st, 0, <<>>)
    ELSE Return(st, [stat_both |-> st.stat_both + pos_vi,
                     stat_bsig |-> st.stat_bsig + (r.pos - pos_vi)],
                r.pos, r.recs)

decode_cssr_st4(st, payload, pos) == _decode_code_bias(st, payload, pos, "cssr")

\* ------------------------------------------------------------- subtype 5

\* exc "IndexError" where the cell mask read raises; pos 0: return 0
RECURSIVE St5Loop(_, _, _, _, _)
St5Loop(payload, cells, k, pos, recs) ==
    IF k > Len(cells) THEN [exc |-> "", pos |-> pos, recs |-> recs]
    ELSE IF cells[k].mask = -1
         THEN [exc |-> "IndexError", pos |-> -1, recs |-> <<>>]
    ELSE IF cells[k].mask = 0 THEN St5Loop(payload, cells, k + 1, pos, recs)
    ELSE IF Len(payload) < pos + 15 + 2
         THEN [exc |-> "", pos |-> 0, recs |-> <<>>]
    ELSE LET ipb == Sint(Slice(payload, pos, pos + 15)) IN
         St5Loop(payload, cells, k + 1, pos + 17,
            Append(recs, [gsys |-> cells[k].gsys, gsig |-> cells[k].gsig,
                          pos_mask |-> cells[k].pos_mask, at |-> pos,
                          ipb |-> ipb, pb |-> Scaled(ipb, -16384, 1),
                          di |-> Uint(Slice(payload, pos + 15, pos + 17))]))

decode_cssr_st5(st, payload, pos) ==
    LET r == St5Loop(payload, CellList(st), 1, pos, <<>>) IN
    IF r.exc # "" THEN RaisePlain(st, r.exc)
    ELSE IF r.pos = 0 THEN ReturnPlain(st, 0, <<>>)
    ELSE Return(st, [stat_both |-> st.stat_both + pos,
                     stat_bsig |-> st.stat_bsig + (r.pos - pos)],
                r.pos, r.recs)

\* ------------------------------------------------------------- subtype 6

\* the cell loop of decode_cssr_st6. f_nb false (the flag an empty slice)
\* leaves svmask = {}, and svmask[satsys][j] raises KeyError
RECURSIVE St6Loop(_, _, _, _, _, _, _, _, _)
St6Loop(payload, cells, svmask, f_cb, f_pb, f_nb, k, pos, recs) ==
    IF k > Len(cells) THEN [exc |-> "", pos |-> pos, recs |-> recs]
    ELSE IF cells[k].mask = -1
         THEN [exc |-> "IndexError", pos |-> -1, recs |-> <<>>]
    ELSE IF ~f_nb THEN [exc |-> "KeyError", pos |-> -1, recs |-> <<>>]
    ELSE IF svmask[cells[k].satsys][cells[k].j] = 0 \/ cells[k].mask = 0
         THEN St6Loop(payload, cells, svmask, f_cb, f_pb, f_nb, k + 1, pos, recs)
    ELSE LET pos_pb == IF f_cb THEN pos + 11 ELSE pos
             icb    == Sint(Slice(payload, pos, pos + 11))
             ipb    == Sint(Slice(payload, pos_pb, pos_pb + 15))
         IN
         IF f_cb /\ Len(payload) < pos + 11
         THEN [exc |-> "", pos |-> 0, recs |-> <<>>]
         ELSE IF f_pb /\ Len(payload) < pos_pb + 15 + 2
         THEN [exc |-> "", pos |-> 0, recs |-> <<>>]
         ELSE St6Loop(payload, cells, svmask, f_cb, f_pb, f_nb, k + 1,
                IF f_pb THEN pos_pb + 17 ELSE pos_pb,
                Append(recs,
                  [gsys |-> cells[k].gsys, gsig |-> cells[k].gsig,
                   pos_mask |-> cells[k].pos_mask, at |-> pos,
                   cb |-> IF f_cb THEN Scaled(icb, -1024, 2) ELSE INVALID,
                   pb |-> IF f_pb THEN Scaled(ipb, -16384, 1) ELSE INVALID]))

decode_cssr_st6(st, payload, pos) ==
    LET f_cb == Truthy(Slice(payload, pos, pos + 1))
        f_pb == Truthy(Slice(payload, pos + 1, pos + 2))
        f_nb == Truthy(Slice(payload, pos + 2, pos + 3))
        sv   == IF f_nb THEN ReadSvmask(st, payload, pos + 3 + 5)
                ELSE [pos |-> pos + 3, svmask |-> EmptyDict]
        r    == St6Loop(payload, CellList(st), sv.svmask, f_cb, f_pb, f_nb,
                        1, sv.pos, <<>>)
    IN
    IF Len(payload) < 45 THEN ReturnPlain(st, 0, <<>>)
    ELSE IF sv.pos = 0 THEN ReturnPlain(st, 0, <<>>)
    ELSE IF r.exc # "" THEN RaisePlain(st, r.exc)
    ELSE IF r.pos = 0 THEN ReturnPlain(st, 0, <<>>)
    ELSE Return(st, [stat_both |-> st.stat_both + pos + 3,
                     stat_bsig |-> st.stat_bsig + (r.pos - pos - 3)],
                r.pos, r.recs)

\* ------------------------------------------------------------- subtype 7

RECURSIVE St7Loop(_, _, _, _, _)
St7Loop(payload, sats, k, pos, recs) ==
    IF k > Len(sats) THEN [pos |-> pos, recs |-> recs]
    ELSE IF Len(payload) < pos + 6 THEN [pos |-> 0, recs |-> <<>>]
    ELSE St7Loop(payload, sats, k + 1, pos + 6,
            Append(recs, [gsys |-> sats[k].gsys,
                          ura |-> Uint(Slice(payload, pos, pos + 6))]))

decode_cssr_st7(st, payload, pos) ==
    LET r == St7Loop(payload, SatList(st), 1, pos, <<>>) IN
    IF Len(payload) < 37 THEN ReturnPlain(st, 0, <<>>)
    ELSE IF r.pos = 0 THEN ReturnPlain(st, 0, <<>>)
    ELSE Return(st, [stat_both |-> st.stat_both + pos,
                     stat_bsat |-> st.stat_bsat + (r.pos - pos)],
                r.pos, r.recs)

\* ------------------------------------------------- STEC polynomial terms

\* variant of the conditional groups in which the group of c11 takes 12
\* bits
StecTermsWide(payload, pos, type) ==
    LET p1   == IF 1 <= type THEN pos + 24 ELSE pos
        p2   == IF 2 <= type THEN p1 + 12 ELSE p1
        p3   == IF 3 <= type THEN p2 + 16 ELSE p2
        ic01 == Sint(Slice(payload, pos, pos + 12))
        ic10 == Sint(Slice(payload, pos + 12, pos + 24))
        ic11 == Sint(Slice(payload, p1, p1 + 10))
        ic02 == Sint(Slice(payload, p2, p2 + 8))
        ic20 == Sint(Slice(payload, p2 + 8, p2 + 16))
        none == [pos |-> 0, c01 |-> INVALID, c10 |-> INVALID, c11 |-> INVALID,
                 c02 |-> INVALID, c20 |-> INVALID]
    IN
    IF 1 <= type /\ Len(payload) < pos + 12 + 12 THEN none
    ELSE IF 2 <= type /\ Len(payload) < p1 + 10 THEN none
    ELSE IF 3 <= type /\ Len(payload) < p2 + 8 + 8 THEN none
    ELSE [pos |-> p3,
          c01 |-> IF 1 <= type THEN Scaled(ic01, -2048, 20) ELSE INVALID,
          c10 |-> IF 1 <= type THEN Scaled(ic10, -2048, 20) ELSE INVALID,
          c11 |-> IF 2 <= type THEN Scaled(ic11, -512, 20) ELSE INVALID,
          c02 |-> IF 3 <= type THEN Scaled(ic02, -128, 5) ELSE INVALID,
          c20 |-> IF 3 <= type THEN Scaled(ic20, -128, 5) ELSE INVALID]

\* the conditional groups after c00 (decode_cssr_st8 and, with the same
\* code, decode_cssr_st12): "if 1 <= type: c01, c10", "if 2 <= type: c11",
\* "if 3 <= type: c02, c20", each after its own length check. pos 0 stands
\* for the return 0; a term that is not read is left INVALID
StecTerms(payload, pos, type) ==
    LET p1   == IF 1 <= type THEN pos + 24 ELSE pos
        p2   == IF 2 <= type THEN p1 + 10 ELSE p1
        p3   == IF 3 <= type THEN p2 + 16 ELSE p2
        ic01 == Sint(Slice(payload, pos, pos + 12))
        ic10 == Sint(Slice(payload, pos + 12, pos + 24))
        ic11 == Sint(Slice(payload, p1, p1 + 10))
        ic02 == Sint(Slice(payload, p2, p2 + 8))
        ic20 == Sint(Slice(payload, p2 + 8, p2 + 16))
        none == [pos |-> 0, c01 |-> INVALID, c10 |-> INVALID, c11 |-> INVALID,
                 c02 |-> INVALID, c20 |-> INVALID]
    IN
    IF 1 <= type /\ Len(payload) < pos + 12 + 12 THEN none
    ELSE IF 2 <= type /\ Len(payload) < p1 + 10 THEN none
    ELSE IF 3 <= type /\ Len(payload) < p2 + 8 + 8 THEN none
    ELSE [pos |-> p3,
          c01 |-> IF 1 <= type THEN Scaled(ic01, -2048, 20) ELSE INVALID,
          c10 |-> IF 1 <= type THEN Scaled(ic10, -2048, 20) ELSE INVALID,
          c11 |-> IF 2 <= type THEN Scaled(ic11, -512, 20) ELSE INVALID,
          c02 |-> IF 3 <= type THEN Scaled(ic02, -128, 5) ELSE INVALID,
          c20 |-> IF 3 <= type THEN Scaled(ic20, -128, 5) ELSE INVALID]

\* ------------------------------------------------------------- subtype 8

RECURSIVE St8Loop(_, _, _, _, _, _, _)
St8Loop(payload, sats, svmask, stec_type, k, pos, recs) ==
    IF k > Len(sats) THEN [pos |-> pos, recs |-> recs]
    ELSE IF svmask[sats[k].satsys][sats[k].j] = 0
         THEN St8Loop(payload, sats, svmask, stec_type, k + 1, pos, recs)
    ELSE LET ic00 == Sint(Slice(payload, pos + 6, pos + 20))
             t    == StecTerms(payload, pos + 20, stec_type)
         IN
         IF Len(payload) < pos + 6 + 14 THEN [pos |-> 0, recs |-> <<>>]
         ELSE IF t.pos = 0 THEN [pos |-> 0, recs |-> <<>>]
         ELSE St8Loop(payload, sats, svmask, stec_type, k + 1, t.pos,
                Append(recs,
                  [gsys |-> sats[k].gsys, at |-> pos, type |-> stec_type,
                   qi |-> Uint(Slice(payload, pos, pos + 6)),
                   ic00 |-> ic00, c00 |-> Scaled(ic00, -8192, 50),
                   c01 |-> t.c01, c10 |-> t.c10, c11 |-> t.c11,
                   c02 |-> t.c02, c20 |-> t.c20]))

\* variant that counts the 7 bits before the SV mask in both counters
decode_cssr_st8_counts_mask_twice(st, payload, pos) ==
    LET stec_type == Uint(Slice(payload, pos, pos + 2))
        sv == ReadSvmask(st, payload, pos + 2 + 5)
        r  == St8Loop(payload, SatList(st), sv.svmask, stec_type, 1, sv.pos, <<>>)
    IN
    IF Len(payload) < 44 THEN ReturnPlain(st, 0, <<>>)
    ELSE IF sv.pos = 0 THEN ReturnPlain(st, 0, <<>>)
    ELSE IF r.pos = 0 THEN ReturnPlain(st, 0, <<>>)
    ELSE Return(st, [stat_both |-> st.stat_both + pos + 7,
                     stat_bsat |-> st.stat_bsat + (r.pos - pos)],
                r.pos, r.recs)

decode_cssr_st8(st, payload, pos) ==
    LET stec_type == Uint(Slice(payload, pos, pos + 2))
        sv == ReadSvmask(st, payload, pos + 2 + 5)
        r  == St8Loop(payload, SatList(st), sv.svmask, stec_type, 1, sv.pos, <<>>)
    IN
    IF Len(payload) < 44 THEN ReturnPlain(st, 0, <<>>)
    ELSE IF sv.pos = 0 THEN ReturnPlain(st, 0, <<>>)
    ELSE IF r.pos = 0 THEN ReturnPlain(st, 0, <<>>)
    ELSE Return(st, [stat_both |-> st.stat_both + pos + 7,
                     stat_bsat |-> st.stat_bsat + (r.pos - pos - 7)],
                r.pos, r.recs)

\* ------------------------------------------------------------- subtype 9

\* bits == n for an integer n: no bitstring is made from an integer, and
\* the comparison answers False
BitsEqInt(b, n) == FALSE

\* the residuals of one grid: one per satellite whose svmask bit is set
RECURSIVE St9SatLoop(_, _, _, _, _, _, _, _)
St9SatLoop(payload, sats, svmask, crange, grid, k, pos, recs) ==
    IF k > Len(sats) THEN [pos |-> pos, recs |-> recs]
    ELSE IF svmask[sats[k].satsys][sats[k].j] = 0
         THEN St9SatLoop(payload, sats, svmask, crange, grid, k + 1, pos, recs)
    ELSE LET bw  == IF Truthy(crange) THEN 16 ELSE 7
             res == Sint(Slice(payload, pos, pos + bw))
         IN
         IF Len(payload) < pos + bw THEN [pos |-> 0, recs |-> <<>>]
         ELSE St9SatLoop(payload, sats, svmask, crange, grid, k + 1, pos + bw,
                Append(recs,
                  [gsys |-> sats[k].gsys, grid |-> grid, at |-> pos,
                   bw |-> bw, res |-> res,
                   residual |->
                     IF (BitsEqInt(crange, 1) /\ res = -32767)
                        \/ (BitsEqInt(crange, 0) /\ res = -64)
                     THEN INVALID ELSE res * 4]))

RECURSIVE St9GridLoop(_, _, _, _, _, _, _, _)
St9GridLoop(payload, sats, svmask, crange, ngrid, i, pos, recs) ==
    IF i >= ngrid THEN [pos |-> pos, recs |-> recs]
    ELSE LET ivd_h == Sint(Slice(payload, pos, pos + 9))
             ivd_w == Sint(Slice(payload, pos + 9, pos + 17))
             s == St9SatLoop(payload, sats, svmask, crange, i + 1, 1, pos + 17,
                    Append(recs, [grid |-> i + 1, at |-> pos,
                                  vd_h |-> Scaled(ivd_h, -256, 4),
                                  vd_w |-> Scaled(ivd_w, -128, 4)]))
         IN
         IF Len(payload) < pos + 9 + 8 THEN [pos |-> 0, recs |-> <<>>]
         ELSE IF s.pos = 0 THEN [pos |-> 0, recs |-> <<>>]
         ELSE St9GridLoop(payload, sats, svmask, crange, ngrid, i + 1,
                          s.pos, s.recs)

decode_cssr_st9(st, payload, pos) ==
    LET crange == Slice(payload, pos + 2, pos + 3)
        sv     == ReadSvmask(st, payload, pos + 2 + 1 + 5)
        ngrid  == Uint(Slice(payload, sv.pos + 6, sv.pos + 12))
        r      == St9GridLoop(payload, SatList(st), sv.svmask, crange, ngrid,
                              0, sv.pos + 12, <<>>)
    IN
    IF Len(payload) < 45 THEN ReturnPlain(st, 0, <<>>)
    ELSE IF sv.pos = 0 THEN ReturnPlain(st, 0, <<>>)
    ELSE IF Len(payload) < sv.pos + 6 + 6 THEN ReturnPlain(st, 0, <<>>)
    ELSE IF r.pos = 0 THEN ReturnPlain(st, 0, <<>>)
    ELSE Return(st, [stat_both |-> st.stat_both + r.pos], r.pos, r.recs)

\* ------------------------------------------------------------ subtype 10

decode_cssr_st10(st, payload, pos) ==
    LET bcounter == Slice(payload, pos, pos + 3)
        bidsize  == Slice(payload, pos + 3, pos + 5)
        dsize    == (Uint(bidsize) + 1) * 40
    IN
    IF Len(payload) < 5 THEN ReturnPlain(st, 0, <<>>)
    ELSE IF Len(bcounter) = 0 \/ Len(bidsize) = 0
    THEN RaisePlain(st, "InterpretError")
    ELSE IF Len(payload) < pos + 5 + dsize THEN ReturnPlain(st, 0, <<>>)
    ELSE Return(st, [stat_both |-> st.stat_both + pos + 5 + dsize],
                pos + 5 + dsize,
                <<[counter |-> Uint(bcounter), dsize |-> dsize]>>)

\* ------------------------------------------------------------ subtype 11

RECURSIVE St11Loop(_, _, _, _, _, _, _, _)
St11Loop(payload, sats, svmask, f_o, f_c, k, pos, recs) ==
    IF k > Len(sats) THEN [pos |-> pos, recs |-> recs]
    ELSE IF svmask[sats[k].satsys][sats[k].j] = 0
         THEN St11Loop(payload, sats, svmask, f_o, f_c, k + 1, pos, recs)
    ELSE LET bw        == IF sats[k].satsys = "E" THEN 10 ELSE 8
             id_radial == Sint(Slice(payload, pos + bw, pos + bw + 15))
             id_along  == Sint(Slice(payload, pos + bw + 15, pos + bw + 28))
             id_cross  == Sint(Slice(payload, pos + bw + 28, pos + bw + 41))
             pos_c     == IF f_o THEN pos + bw + 41 ELSE pos
             ic0       == Sint(Slice(payload, pos_c, pos_c + 15))
         IN
         IF f_o /\ Len(payload) < pos + bw + 15 + 13 + 13
         THEN [pos |-> 0, recs |-> <<>>]
         ELSE IF f_c /\ Len(payload) < pos_c + 15
         THEN [pos |-> 0, recs |-> <<>>]
         ELSE St11Loop(payload, sats, svmask, f_o, f_c, k + 1,
                IF f_c THEN pos_c + 15 ELSE pos_c,
                Append(recs,
                  [gsys |-> sats[k].gsys, at |-> pos, f_o |-> f_o, f_c |-> f_c,
                   id_radial |-> IF f_o THEN id_radial ELSE 0,
                   id_along  |-> IF f_o THEN id_along ELSE 0,
                   id_cross  |-> IF f_o THEN id_cross ELSE 0,
                   ic0       |-> IF f_c THEN ic0 ELSE 0,
                   d_radial |-> IF f_o THEN Scaled(id_radial, -16384, 16)
                                ELSE INVALID,
                   d_along  |-> IF f_o THEN Scaled(id_along, -4096, 64)
                                ELSE INVALID,
                   d_cross  |-> IF f_o THEN Scaled(id_cross, -4096, 64)
                                ELSE INVALID,
                   c0       |-> IF f_c THEN Scaled(ic0, -16384, 16)
                                ELSE INVALID]))

decode_cssr_st11(st, payload, pos) ==
    LET f_o == Truthy(Slice(payload, pos, pos + 1))
        f_c == Truthy(Slice(payload, pos + 1, pos + 2))
        f_n == Truthy(Slice(payload, pos + 2, pos + 3))
        sv  == ReadSvmask(st, payload, pos + 3 + 5)
        r   == IF f_n
               THEN St11Loop(payload, SatList(st), sv.svmask, f_o, f_c, 1,
                             sv.pos, <<>>)
               ELSE [pos |-> pos + 3, recs |-> <<>>]
    IN
    IF Len(payload) < 40 THEN ReturnPlain(st, 0, <<>>)
    ELSE IF f_n /\ Len(payload) < pos + 3 + 5 THEN ReturnPlain(st, 0, <<>>)
    ELSE IF f_n /\ sv.pos = 0 THEN ReturnPlain(st, 0, <<>>)
    ELSE IF r.pos = 0 THEN ReturnPlain(st, 0, <<>>)
    ELSE Return(st,
           [stat_both |-> st.stat_both + pos + 3 + (IF f_n THEN 5 ELSE 0),
            stat_bsat |-> st.stat_bsat + (r.pos - pos - 3)
                          - (IF f_n THEN 5 ELSE 0)],
           r.pos, r.recs)

\* ------------------------------------------------------------ subtype 12

\* "if tropo[0]": quality, correction type and polynomial coefficients
St12TropoPoly(payload, pos) ==
    LET ttype == Uint(Slice(payload, pos + 6, pos + 8))
        it00  == Sint(Slice(payload, pos + 8, pos + 17))
        p1    == IF 1 <= ttype THEN pos + 17 + 14 ELSE pos + 17
        p2    == IF 2 <= ttype THEN p1 + 7 ELSE p1
        it01  == Sint(Slice(payload, pos + 17, pos + 24))
        it10  == Sint(Slice(payload, pos + 24, pos + 31))
        it11  == Sint(Slice(payload, p1, p1 + 7))
    IN
    IF Len(payload) < pos + 6 + 2 + 9 THEN [pos |-> 0, recs |-> <<>>]
    ELSE IF 1 <= ttype /\ Len(payload) < pos + 17 + 7 + 7
    THEN [pos |-> 0, recs |-> <<>>]
    ELSE IF 2 <= ttype /\ Len(payload) < p1 + 7 THEN [pos |-> 0, recs |-> <<>>]
    ELSE [pos |-> p2,
          recs |-> <<[kind |-> "tropo", at |-> pos, ttype |-> ttype,
                      t00 |-> Scaled(it00, -256, 4),
                      t01 |-> IF 1 <= ttype THEN Scaled(it01, -64, 2)
                              ELSE INVALID,
                      t10 |-> IF 1 <= ttype THEN Scaled(it10, -64, 2)
                              ELSE INVALID,
                      t11 |-> IF 2 <= ttype THEN Scaled(it11, -64, 1)
                              ELSE INVALID]>>]

\* the loop "for i in range(ngrid)" over the troposphere residuals
RECURSIVE St12TropoResLoop(_, _, _, _, _, _)
St12TropoResLoop(payload, trs, ngrid, i, pos, recs) ==
    IF i >= ngrid THEN [pos |-> pos, recs |-> recs]
    ELSE LET bw  == IF Truthy(trs) THEN 8 ELSE 6
             itr == Sint(Slice(payload, pos, pos + bw))
         IN
         St12TropoResLoop(payload, trs, ngrid, i + 1, pos + bw,
            Append(recs,
              [kind |-> "tropo_res", grid |-> i + 1, at |-> pos, bw |-> bw,
               itr |-> itr,
               tr |-> IF (BitsEqInt(trs, 0) /\ itr # -32)
                         \/ (BitsEqInt(trs, 1) /\ itr # -128)
                      THEN INVALID ELSE itr * 4]))

\* "if tropo[1]": residual size, offset and the residual of every grid
St12TropoRes(payload, pos, ngrid, recs) ==
    LET trs == Slice(payload, pos, pos + 1)
        bw  == IF Truthy(trs) THEN 8 ELSE 6
    IN
    IF Len(payload) < pos + 1 + 4 THEN [pos |-> 0, recs |-> <<>>]
    ELSE IF Len(payload) < pos + 5 + bw * ngrid THEN [pos |-> 0, recs |-> <<>>]
    ELSE St12TropoResLoop(payload, trs, ngrid, 0, pos + 5, recs)

St12StecBw == <<4, 4, 5, 7>>

St12StecLsb == <<4, 12, 16, 24>>

St12StecSentinel == <<-8, -8, -16, -64>>

\* the loop "for i in range(ngrid)" over the STEC residuals of one satellite
RECURSIVE St12StecResLoop(_, _, _, _, _, _, _)
St12StecResLoop(payload, gsys, srs, ngrid, i, pos, recs) ==
    IF i >= ngrid THEN [pos |-> pos, recs |-> recs]
    ELSE LET bw  == St12StecBw[srs + 1]
             isr == Sint(Slice(payload, pos, pos + bw))
         IN
         IF Len(payload) < pos + bw THEN [pos |-> 0, recs |-> <<>>]
         ELSE St12StecResLoop(payload, gsys, srs, ngrid, i + 1, pos + bw,
                Append(recs,
                  [kind |-> "stec_res", gsys |-> gsys, grid |-> i + 1,
                   at |-> pos, bw |-> bw, srs |-> srs, isr |-> isr,
                   sr |-> Scaled(isr, St12StecSentinel[srs + 1],
                                 St12StecLsb[srs + 1])]))

RECURSIVE St12StecLoop(_, _, _, _, _, _, _)
St12StecLoop(payload, sats, svmask, ngrid, k, pos, recs) ==
    IF k > Len(sats) THEN [pos |-> pos, recs |-> recs]
    ELSE IF svmask[sats[k].satsys][sats[k].j] = 0
         THEN St12StecLoop(payload, sats, svmask, ngrid, k + 1, pos, recs)
    ELSE LET sct  == Uint(Slice(payload, pos + 6, pos + 8))
             ic00 == Sint(Slice(payload, pos + 8, pos + 22))
             t    == StecTerms(payload, pos + 22, sct)
             srs  == Uint(Slice(payload, t.pos, t.pos + 2))
             g    == St12StecResLoop(payload, sats[k].gsys, srs, ngrid, 0,
                        t.pos + 2,
                        Append(recs,
                          [kind |-> "stec", gsys |-> sats[k].gsys, at |-> pos,
                           type |-> sct, ic00 |-> ic00,
                           c00 |-> Scaled(ic00, -8192, 50),
                           c01 |-> t.c01, c10 |-> t.c10, c11 |-> t.c11,
                           c02 |-> t.c02, c20 |-> t.c20, srs_at |-> t.pos]))
         IN
         IF Len(payload) < pos + 6 + 2 + 14 THEN [pos |-> 0, recs |-> <<>>]
         ELSE IF t.pos = 0 THEN [pos |-> 0, recs |-> <<>>]
         ELSE IF Len(payload) < t.pos + 2 THEN [pos |-> 0, recs |-> <<>>]
         ELSE IF g.pos = 0 THEN [pos |-> 0, recs |-> <<>>]
         ELSE St12StecLoop(payload, sats, svmask, ngrid, k + 1, g.pos, g.recs)

decode_cssr_st12(st, payload, pos) ==
    LET tropo == Slice(payload, pos, pos + 2)
        stec  == Slice(payload, pos + 2, pos + 4)
        ngrid == Uint(Slice(payload, pos + 9, pos + 15))
        a     == IF tropo[1] = 1 THEN St12TropoPoly(payload, pos + 15)
                 ELSE [pos |-> pos + 15, recs |-> <<>>]
        b     == IF tropo[2] = 1 THEN St12TropoRes(payload, a.pos, ngrid, a.recs)
                 ELSE a
        sv    == ReadSvmask(st, payload, b.pos)
        c     == IF stec[1] = 1
                 THEN St12StecLoop(payload, SatList(st), sv.svmask, ngrid, 1,
                                   sv.pos, b.recs)
                 ELSE b
    IN
    IF Len(payload) < 52 THEN ReturnPlain(st, 0, <<>>)
    ELSE IF a.pos = 0 THEN ReturnPlain(st, 0, <<>>)
    ELSE IF b.pos = 0 THEN ReturnPlain(st, 0, <<>>)
    ELSE IF stec[1] = 1 /\ sv.pos = 0 THEN ReturnPlain(st, 0, <<>>)
    ELSE IF c.pos = 0 THEN ReturnPlain(st, 0, <<>>)
    ELSE Return(st, [stat_both |-> st.stat_both + b.pos,
                     stat_bsat |-> st.stat_bsat + (c.pos - b.pos)],
                c.pos, c.recs)

\* ------------------------------------------------------------ HAS decoders

\* the n-bit string '100...0', and '011...1'
HasNotAvailable(n) == [i \in 1..n |-> IF i = 1 THEN 1 ELSE 0]

HasNotUsed(n) == [i \in 1..n |-> IF i = 1 THEN 0 ELSE 1]

\* "bits.int * scale if bits.bin != '100...0' else INVALID", num being the
\* scale in units of 0.1 mm
HasScaled(bits, num) ==
    IF bits # HasNotAvailable(Len(bits)) THEN Sint(bits) * num ELSE INVALID

\* the satellite loop of decode_has_orbit; pos 0 stands for the return 0
RECURSIVE HasOrbitLoop(_, _, _, _, _)
HasOrbitLoop(payload, sats, k, pos, recs) ==
    IF k > Len(sats) THEN [pos |-> pos, recs |-> recs]
    ELSE LET bw == IF sats[k].satsys = "E" THEN 10 ELSE 8 IN
         IF Len(payload) < pos + bw + 13 + 12 + 12
         THEN [pos |-> 0, recs |-> <<>>]
         ELSE HasOrbitLoop(payload, sats, k + 1, pos + bw + 37,
                Append(recs,
                  [gsys |-> sats[k].gsys,
                   iode |-> Uint(Slice(payload, pos, pos + bw)),
                   i_radial |-> Slice(payload, pos + bw, pos + bw + 13),
                   i_along  |-> Slice(payload, pos + bw + 13, pos + bw + 25),
                   i_cross  |-> Slice(payload, pos + bw + 25, pos + bw + 37),
                   d_radial |->
                       HasScaled(Slice(payload, pos + bw, pos + bw + 13), 25),
                   d_along |->
                       HasScaled(Slice(payload, pos + bw + 13, pos + bw + 25), 80),
                   d_cross |->
                       HasScaled(Slice(payload, pos + bw + 25, pos + bw + 37), 80)]))

\* the end of a HAS decoder whose loop ended as r: the counters stat_both and
\* the one named counter grow by stat_pos and by the bits read after from
HasEnd(st, r, stat_pos, from, counter) ==
    IF r.pos = 0 THEN ReturnPlain(st, 0, <<>>)
    ELSE Return(st,
                [c \in {"stat_both", counter} |->
                    IF c = "stat_both" THEN st.stat_both + stat_pos
                    ELSE st[counter] + (r.pos - from)],
                r.pos, r.recs)

decode_has_orbit(st, payload, pos) ==
    IF Len(payload) < pos + 4 THEN ReturnPlain(st, 0, <<>>)
    ELSE HasEnd(st, HasOrbitLoop(payload, SatList(st), 1, pos + 4, <<>>),
                pos, pos, "stat_bsat")

\* c0 of decode_has_ckful and decode_has_cksub
HasClock(ic0, multiplier) ==
    IF ic0 = HasNotAvailable(13) THEN INVALID
    ELSE IF ic0 = HasNotUsed(13) THEN INVALID
    ELSE Sint(ic0) * 25 * multiplier

\* the satellite loop of decode_has_ckful; pos0 is the place of the
\* multipliers, two bits for each entry of self.satsys
RECURSIVE HasCkfulLoop(_, _, _, _, _, _)
HasCkfulLoop(payload, sats, pos0, k, pos, recs) ==
    IF k > Len(sats) THEN [pos |-> pos, recs |-> recs]
    ELSE IF Len(payload) < pos + 13 THEN [pos |-> 0, recs |-> <<>>]
    ELSE LET multiplier ==
                 Uint(Slice(payload, pos0 + 2 * (sats[k].i - 1),
                            pos0 + 2 * sats[k].i)) + 1
         IN
         HasCkfulLoop(payload, sats, pos0, k + 1, pos + 13,
            Append(recs,
              [gsys |-> sats[k].gsys, multiplier |-> multiplier,
               ic0 |-> Slice(payload, pos, pos + 13),
               c0 |-> HasClock(Slice(payload, pos, pos + 13), multiplier)]))

decode_has_ckful(st, payload, pos) ==
    IF Len(payload) < pos + 4 THEN ReturnPlain(st, 0, <<>>)
    ELSE IF Len(payload) < pos + 4 + 2 * Len(st.satsys)
    THEN ReturnPlain(st, 0, <<>>)
    ELSE HasEnd(st,
                HasCkfulLoop(payload, SatList(st), pos + 4, 1,
                             pos + 4 + 2 * Len(st.satsys), <<>>),
                pos, pos, "stat_bsat")

\* the validity intervals in seconds by validity interval index 0..15
HAS_VI ==
    <<5, 10, 15, 20, 30, 60, 90, 120, 180, 240, 300, 600, 900, 1800, 3600, 0>>

\* decode_has_cksub: after the length check, vi and ns = field + 1 >= 1, the
\* first pass of "for i in range(ns)" reads the GNSS id and then assigns
\* multiplier[i], a name that is bound nowhere: NameError, unless one of the
\* two slices whose .uint is taken before is empty (InterpretError)
decode_has_cksub(st, payload, pos) ==
    IF Len(payload) < pos + 4 + 2 THEN ReturnPlain(st, 0, <<>>)
    ELSE IF Len(payload) <= pos + 6 + 4 THEN RaisePlain(st, "InterpretError")
    ELSE RaisePlain(st, "NameError")

decode_has_cbias(st, payload, pos) == _decode_code_bias(st, payload, pos, "has")

\* the cell loop of decode_has_pbias: exc "IndexError" where the cell mask
\* read raises; pos 0: return 0
RECURSIVE HasPbiasLoop(_, _, _, _, _)
HasPbiasLoop(payload, cells, k, pos, recs) ==
    IF k > Len(cells) THEN [exc |-> "", pos |-> pos, recs |-> recs]
    ELSE IF cells[k].mask = -1
         THEN [exc |-> "IndexError", pos |-> -1, recs |-> <<>>]
    ELSE IF cells[k].mask = 0 THEN HasPbiasLoop(payload, cells, k + 1, pos, recs)
    ELSE IF Len(payload) < pos + 11 + 2
         THEN [exc |-> "", pos |-> 0, recs |-> <<>>]
    ELSE LET ipb == Sint(Slice(payload, pos, pos + 11)) IN
         HasPbiasLoop(payload, cells, k + 1, pos + 13,
            Append(recs, [gsys |-> cells[k].gsys, gsig |-> cells[k].gsig,
                          pos_mask |-> cells[k].pos_mask, at |-> pos,
                          ipb |-> ipb, pb |-> Scaled(ipb, -1024, 1),
                          di |-> Uint(Slice(payload, pos + 11, pos + 13))]))

\* the end of decode_has_pbias after its cell loop ended as r
HasPbiasEnd(st, r, pos) ==
    IF r.exc # "" THEN RaisePlain(st, r.exc)
    ELSE HasEnd(st, r, pos + 4, pos + 4, "stat_bsig")

decode_has_pbias(st, payload, pos) ==
    IF Len(payload) < pos + 4 THEN ReturnPlain(st, 0, <<>>)
    ELSE HasPbiasEnd(st, HasPbiasLoop(payload, CellList(st), 1, pos + 4, <<>>),
                     pos)

\* --------------------------------------------------------------- dispatch

\* the summary decode_cssr returns: f'ST{subtype:<2d} epoch={epoch}
\* iod={iod}' for subtype 1, f'ST{subtype:<2d} hepoch={hepoch} iod={iod}'
\* otherwise, as the tuple of its parts
Summary(st) ==
    IF st.subtype = 1 THEN <<"ST", st.subtype, "epoch", st.epoch, "iod", st.iod>>
    ELSE <<"ST", st.subtype, "hepoch", st.hepoch, "iod", st.iod>>

\* the subtype decoder decode_cssr calls for self.subtype in 1..12
SubtypeDecoder(st, payload, pos) ==
    CASE st.subtype = 1  -> decode_cssr_st1(st, payload, pos)
      [] st.subtype = 2  -> decode_cssr_st2(st, payload, pos)
      [] st.subtype = 3  -> decode_cssr_st3(st, payload, pos)
      [] st.subtype = 4  -> decode_cssr_st4(st, payload, pos)
      [] st.subtype = 5  -> decode_cssr_st5(st, payload, pos)
      [] st.subtype = 6  -> decode_cssr_st6(st, payload, pos)
      [] st.subtype = 7  -> decode_cssr_st7(st, payload, pos)
      [] st.subtype = 8  -> decode_cssr_st8(st, payload, pos)
      [] st.subtype = 9  -> decode_cssr_st9(st, payload, pos)
      [] st.subtype = 10 -> decode_cssr_st10(st, payload, pos)
      [] st.subtype = 11 -> decode_cssr_st11(st, payload, pos)
      [] st.subtype = 12 -> decode_cssr_st12(st, payload, pos)

\* a variant of UnknownSubtype that also drops the mask context
UnknownSubtypeDropsMask(h) ==
    LET none == [satsys |-> <<>>, nsatmask |-> <<>>, nsigmask |-> <<>>,
                 cellmask |-> <<>>, gsys |-> EmptyDict, gsig |-> EmptyDict]
    IN [st |-> Assign(h.st, none), wr |-> h.wr \cup DOMAIN none,
        pos |-> -1, exc |-> "Exception", recs |-> <<>>, str |-> <<>>]

\* the else branch of the dispatch, h being the frame of the header:
\* raise Exception(f"unknown CSSR subtype: {self.subtype}")
UnknownSubtype(h) ==
    [st |-> h.st, wr |-> h.wr, pos |-> -1, exc |-> "Exception",
     recs |-> <<>>, str |-> <<>>]

\* the frame of decode_cssr once the subtype decoder ended with frame b,
\* the header having assigned the attributes hwr: the summary string in str
\* (<<>> is the empty string '')
Decoded(hwr, b) ==
    IF b.exc # "" THEN
        [st |-> b.st, wr |-> hwr \cup b.wr, pos |-> -1, exc |-> b.exc,
         recs |-> <<>>, str |-> <<>>]
    ELSE
        [st |-> b.st, wr |-> hwr \cup b.wr, pos |-> b.pos, exc |-> "",
         recs |-> b.recs, str |-> Summary(b.st)]

\* decode_cssr after the header ended with frame h
Dispatch(h, payload) ==
    IF h.pos = 0 THEN
        [st |-> h.st, wr |-> h.wr, pos |-> 0, exc |-> "", recs |-> <<>>,
         str |-> <<>>]
    ELSE IF h.st.subtype \notin 1..12 THEN UnknownSubtype(h)
    ELSE Decoded(h.wr, SubtypeDecoder(h.st, payload, h.pos))

decode_cssr(st, payload) == Dispatch(decode_cssr_head(st, payload), payload)

\* ------------------------------------------------------------- ephemeris
\* Model of Eph.decode_ephemerides of src/python/libeph.py. The payload is a
\* bitstring.ConstBitStream: read(n) takes the n bits at its position and
\* advances it, and raises ReadError when fewer than n bits are left;
\* "payload.pos += n" raises ValueError when it would pass the end.
\* A layout is the sequence of the statements of one branch, each a triple
\* <<field, bits, kind>>:
\*   "u"    r.field = payload.read(bits).u
\*   "i"    r.field = payload.read(bits).i
\*   "b"    r.field = payload.read(bits)
\*   "sm"   _sgn = payload.read(1).u; r.field = payload.read(bits).u;
\*          if _sgn: r.field = -r.field
\*   "skip" payload.pos += bits

\* satsys == 'G'
EphLayoutG ==
    <<<<"svid", 6, "u">>, <<"wn", 10, "u">>, <<"sva", 4, "u">>,
      <<"gpsc", 2, "b">>, <<"idot", 14, "i">>, <<"iode", 8, "u">>,
      <<"toc", 16, "u">>, <<"af2", 8, "i">>, <<"af1", 16, "i">>,
      <<"af0", 22, "i">>, <<"iodc", 10, "u">>, <<"crs", 16, "i">>,
      <<"dn", 16, "i">>, <<"m0", 32, "i">>, <<"cuc", 16, "i">>,
      <<"e", 32, "u">>, <<"cus", 16, "i">>, <<"a12", 32, "u">>,
      <<"toe", 16, "u">>, <<"cic", 16, "i">>, <<"omg0", 32, "i">>,
      <<"cis", 16, "i">>, <<"i0", 32, "i">>, <<"crc", 16, "i">>,
      <<"omg", 32, "i">>, <<"omgd", 24, "i">>, <<"tgd", 8, "i">>,
      <<"svh", 6, "u">>, <<"l2p", 1, "u">>, <<"fi", 1, "u">>>>

\* satsys == 'R'
EphLayoutR ==
    <<<<"svid", 6, "u">>, <<"fcn", 5, "u">>, <<"svh", 1, "u">>,
      <<"aha", 1, "u">>, <<"p1", 2, "u">>, <<"tk", 12, "b">>,
      <<"bn", 1, "u">>, <<"p2", 1, "u">>, <<"tb", 7, "u">>,
      <<"xnd", 23, "sm">>, <<"xn", 26, "sm">>, <<"xndd", 4, "sm">>,
      <<"ynd", 23, "sm">>, <<"yn", 26, "sm">>, <<"yndd", 4, "sm">>,
      <<"znd", 23, "sm">>, <<"zn", 26, "sm">>, <<"zndd", 4, "sm">>,
      <<"p3", 1, "u">>, <<"gmn", 10, "sm">>, <<"p", 2, "b">>,
      <<"in3", 1, "u">>, <<"taun", 21, "sm">>, <<"dtaun", 4, "sm">>,
      <<"en", 5, "u">>, <<"p4", 1, "u">>, <<"ft", 4, "u">>,
      <<"nt", 11, "u">>, <<"m", 2, "b">>, <<"add", 1, "u">>,
      <<"na", 11, "u">>, <<"tauc", 31, "sm">>, <<"n4", 5, "u">>,
      <<"tgps", 21, "sm">>, <<"in5", 1, "u">>, <<"reserved", 7, "skip">>>>

\* satsys == 'E', the fields before the navigation message type is looked at
EphLayoutE ==
    <<<<"svid", 6, "u">>, <<"wn", 12, "u">>, <<"iodn", 10, "u">>,
      <<"sisa", 8, "u">>, <<"idot", 14, "i">>, <<"toc", 14, "u">>,
      <<"af2", 6, "i">>, <<"af1", 21, "i">>, <<"af0", 31, "i">>,
      <<"crs", 16, "i">>, <<"dn", 16, "i">>, <<"m0", 32, "i">>,
      <<"cuc", 16, "i">>, <<"e", 32, "u">>, <<"cus", 16, "i">>,
      <<"a12", 32, "u">>, <<"toe", 14, "u">>, <<"cic", 16, "i">>,
      <<"omg0", 32, "i">>, <<"cis", 16, "i">>, <<"i0", 32, "i">>,
      <<"crc", 16, "i">>, <<"omg", 32, "i">>, <<"omgd0", 24, "i">>,
      <<"be5a", 10, "i">>>>

\* variant of the F/NAV fields without the reserved bits
EphLayoutFNavNoReserved ==
    <<<<"osh", 2, "u">>, <<"osv", 1, "u">>>>

\* mtype == 'F/NAV'
EphLayoutFNav ==
    <<<<"osh", 2, "u">>, <<"osv", 1, "u">>, <<"reserved", 7, "skip">>>>

\* mtype == 'I/NAV'
EphLayoutINav ==
    <<<<"be5b", 10, "i">>, <<"e5h", 2, "u">>, <<"e5v", 1, "u">>,
      <<"e1h", 2, "u">>, <<"e1v", 1, "u">>, <<"reserved", 2, "skip">>>>

\* satsys == 'J'
EphLayoutJ ==
    <<<<"svid", 4, "u">>, <<"toc", 16, "u">>, <<"af2", 8, "i">>,
      <<"af1", 16, "i">>, <<"af0", 22, "i">>, <<"iode", 8, "u">>,
      <<"crs", 16, "i">>, <<"dn0", 16, "i">>, <<"m0", 32, "i">>,
      <<"cuc", 16, "i">>, <<"e", 32, "u">>, <<"cus", 16, "i">>,
      <<"a12", 32, "u">>, <<"toe", 16, "u">>, <<"cic", 16, "i">>,
      <<"omg0", 32, "i">>, <<"cis", 16, "i">>, <<"i0", 32, "i">>,
      <<"crc", 16, "i">>, <<"omgn", 32, "i">>, <<"omgd", 24, "i">>,
      <<"i0d", 14, "i">>, <<"l2", 2, "u">>, <<"wn", 10, "u">>,
      <<"ura", 4, "u">>, <<"svh", 6, "b">>, <<"tgd", 8, "i">>,
      <<"iodc", 10, "u">>, <<"fi", 1, "u">>>>

\* satsys == 'C'
EphLayoutC ==
    <<<<"svid", 6, "u">>, <<"wn", 13, "u">>, <<"urai", 4, "u">>,
      <<"idot", 14, "i">>, <<"aode", 5, "u">>, <<"toc", 17, "u">>,
      <<"a2", 11, "i">>, <<"a1", 22, "i">>, <<"a0", 24, "i">>,
      <<"aodc", 5, "u">>, <<"crs", 18, "i">>, <<"dn", 16, "i">>,
      <<"m0", 32, "i">>, <<"cuc", 18, "i">>, <<"e", 32, "u">>,
      <<"cus", 18, "i">>, <<"a12", 32, "u">>, <<"toe", 17, "u">>,
      <<"cic", 18, "u">>, <<"omg0", 32, "i">>, <<"cis", 18, "i">>,
      <<"i0", 32, "i">>, <<"crc", 18, "i">>, <<"omg", 32, "i">>,
      <<"omgd", 24, "i">>, <<"tgd1", 10, "i">>, <<"tgd2", 10, "i">>,
      <<"svh", 1, "u">>>>

\* satsys == 'I'
EphLayoutI ==
    <<<<"svid", 6, "u">>, <<"wn", 10, "u">>, <<"af0", 22, "i">>,
      <<"af1", 16, "i">>, <<"af2", 8, "i">>, <<"ura", 4, "u">>,
      <<"toc", 16, "u">>, <<"tgd", 8, "i">>, <<"dn", 22, "i">>,
      <<"iodec", 8, "u">>, <<"reserved", 10, "skip">>, <<"hl5", 1, "u">>,
      <<"hs", 1, "u">>, <<"cuc", 15, "i">>, <<"cus", 15, "i">>,
      <<"cic", 15, "i">>, <<"cis", 15, "i">>, <<"crc", 15, "i">>,
      <<"crs", 15, "i">>, <<"idot", 14, "i">>, <<"m0", 32, "i">>,
      <<"toe", 16, "u">>, <<"e", 32, "u">>, <<"a12", 32, "u">>,
      <<"omg0", 32, "i">>, <<"omg", 32, "i">>, <<"omgd", 22, "i">>,
      <<"i0", 32, "i">>, <<"spare1", 2, "skip">>, <<"spare2", 2, "skip">>>>

\* variant of EphStatement that reads a sign and magnitude field as two's
\* complement
EphStatementTwos(payload, f, acc) ==
    LET need == IF f[3] = "sm" THEN f[2] + 1 ELSE f[2]
        from == IF f[3] = "sm" THEN acc.pos + 1 ELSE acc.pos
        bits == SubSeq(payload, from + 1, from + f[2])
        val  == CASE f[3] = "u"  -> Uint(bits)
                  [] f[3] = "i"  -> Sint(bits)
                  [] f[3] = "b"  -> bits
                  [] f[3] = "sm" -> Sint(SubSeq(payload, acc.pos + 1,
                                                  from + f[2]))
    IN
    IF f[3] = "sm" /\ acc.pos + 1 <= Len(payload)
                   /\ acc.pos + need > Len(payload) THEN
        [acc EXCEPT !.pos = acc.pos + 1, !.exc = "ReadError"]
    ELSE IF acc.pos + need > Len(payload) THEN
        [acc EXCEPT !.exc = IF f[3] = "skip" THEN "ValueError" ELSE "ReadError"]
    ELSE IF f[3] = "skip" THEN [acc EXCEPT !.pos = acc.pos + need]
    ELSE [pos |-> acc.pos + need, exc |-> "",
          raw |-> DictPut(acc.raw, f[1], val)]

\* one statement f of a layout, run in acc = [pos, exc, raw]; a sign and
\* magnitude field is two reads, the sign bit and then the magnitude, so a
\* payload that ends inside the magnitude leaves pos after the sign bit
EphStatement(payload, f, acc) ==
    LET need == IF f[3] = "sm" THEN f[2] + 1 ELSE f[2]
        from == IF f[3] = "sm" THEN acc.pos + 1 ELSE acc.pos
        bits == SubSeq(payload, from + 1, from + f[2])
        val  == CASE f[3] = "u"  -> Uint(bits)
                  [] f[3] = "i"  -> Sint(bits)
                  [] f[3] = "b"  -> bits
                  [] f[3] = "sm" -> IF payload[acc.pos + 1] = 1 THEN -Uint(bits)
                                    ELSE Uint(bits)
    IN
    IF f[3] = "sm" /\ acc.pos + 1 <= Len(payload)
                   /\ acc.pos + need > Len(payload) THEN
        [acc EXCEPT !.pos = acc.pos + 1, !.exc = "ReadError"]
    ELSE IF acc.pos + need > Len(payload) THEN
        [acc EXCEPT !.exc = IF f[3] = "skip" THEN "ValueError" ELSE "ReadError"]
    ELSE IF f[3] = "skip" THEN [acc EXCEPT !.pos = acc.pos + need]
    ELSE [pos |-> acc.pos + need, exc |-> "",
          raw |-> DictPut(acc.raw, f[1], val)]

\* the statements k.. of a layout, run one after the other until one raises
RECURSIVE EphRead(_, _, _, _)
EphRead(payload, layout, k, acc) ==
    IF k > Len(layout) \/ acc.exc # "" THEN acc
    ELSE EphRead(payload, layout, k + 1, EphStatement(payload, layout[k], acc))

\* the text appended for the flags of tags whose raw value is not zero, with
\* the value where tag[3] says the text shows it
RECURSIVE EphFlags(_, _, _)
EphFlags(r, tags, k) ==
    IF k > Len(tags) THEN <<>>
    ELSE (IF r[tags[k][1]] = 0 THEN <<>>
          ELSE IF tags[k][3] THEN <<tags[k][2], r[tags[k][1]]>>
          ELSE <<tags[k][2]>>)
             \o EphFlags(r, tags, k + 1)

\* the text of the GPS L2 code
EphL2Code(gpsc) ==
    IF gpsc = <<0, 1>> THEN " L2P"
    ELSE IF gpsc = <<1, 0>> THEN " L2C/A"
    ELSE IF gpsc = <<1, 1>> THEN " L2C"
    ELSE "unknown L2 code: 0b00"

\* the text of the QZSS health bits svh
EphHealthJ(svh) ==
    IF svh[1] = 1 \/ svh[3] = 1 \/ svh[4] = 1 \/ svh[5] = 1
    THEN <<" unhealthy">>
             \o (IF svh[2] = 1 THEN <<"L1C/A">> ELSE <<>>)
             \o (IF svh[3] = 1 THEN <<"L2C">> ELSE <<>>)
             \o (IF svh[4] = 1 THEN <<"L5">> ELSE <<>>)
             \o (IF svh[5] = 1 THEN <<"L1C">> ELSE <<>>)
             \o (IF svh[6] = 1 THEN <<"L1C/B">> ELSE <<>>)
    ELSE (IF svh[2] = 1 THEN <<" L1C/B">> ELSE <<>>)
             \o (IF svh[6] = 1 THEN <<" L1C/A">> ELSE <<>>)

\* the trace summary msg built from the raw record r, as the tuple of its
\* parts
EphSummary(satsys, mtype, r) ==
    CASE satsys = "G" ->
            <<"G", r.svid, "WN", r.wn, "IODE", r.iode, "IODC", r.iodc,
              EphL2Code(r.gpsc)>>
                \o (IF r.svh # 0 THEN <<" unhealthy", r.svh>> ELSE <<>>)
      [] satsys = "R" ->
            <<"R", r.svid, "f", r.fcn, "tk", Uint(SubSeq(r.tk, 8, 12)),
              Uint(SubSeq(r.tk, 2, 7)), Uint(SubSeq(r.tk, 1, 2)) * 15,
              "tb", r.tb * 15>>
                \o EphFlags(r, <<<<"svh", " unhealthy", FALSE>>>>, 1)
      [] satsys = "E" ->
            <<"E", r.svid, "WN", r.wn, "IODnav", r.iodn>>
                \o (IF mtype = "F/NAV"
                    THEN EphFlags(r, <<<<"osh", " unhealthy OS", TRUE>>,
                                       <<"osv", " invalid OS", FALSE>>>>, 1)
                    ELSE EphFlags(r, <<<<"e5h", " unhealthy E5b", TRUE>>,
                                       <<"e5v", " invalid E5b", FALSE>>,
                                       <<"e1h", " unhealthy E1b", TRUE>>,
                                       <<"e1v", " invalid E1b", FALSE>>>>, 1))
      [] satsys = "J" ->
            <<"J", r.svid, "WN", r.wn, "IODE", r.iode, "IODC", r.iodc>>
                \o EphHealthJ(r.svh)
      [] satsys = "C" ->
            <<"C", r.svid, "WN", r.wn, "AODE", r.aode>>
                \o EphFlags(r, <<<<"svh", " unhealthy", FALSE>>>>, 1)
      [] satsys = "I" ->
            <<"I", r.svid, "WN", r.wn, "IODEC", r.iodec>>
                \o (IF r.hl5 # 0 \/ r.hs # 0 THEN <<" unhealthy">> ELSE <<>>)
                \o EphFlags(r, <<<<"hl5", " L5", FALSE>>, <<"hs", " S", FALSE>>>>, 1)

\* the end of decode_ephemerides after its reads ended as acc: the raised
\* exception, or "return msg"
EphEnd(satsys, mtype, acc) ==
    IF acc.exc # "" THEN [acc EXCEPT !.raw = EmptyDict] @@ [msg |-> <<>>]
    ELSE acc @@ [msg |-> EphSummary(satsys, mtype, acc.raw)]

\* variant: a navigation message type that is not 'F/NAV' is taken as 'I/NAV'
EphGalileoLenient(payload, mtype, acc) ==
    IF acc.exc # "" THEN acc
    ELSE IF mtype = "F/NAV" THEN EphRead(payload, EphLayoutFNav, 1, acc)
    ELSE EphRead(payload, EphLayoutINav, 1, acc)

\* the Galileo branch after the fields that do not depend on mtype
EphGalileo(payload, mtype, acc) ==
    IF acc.exc # "" THEN acc
    ELSE IF mtype = "F/NAV" THEN EphRead(payload, EphLayoutFNav, 1, acc)
    ELSE IF mtype = "I/NAV" THEN EphRead(payload, EphLayoutINav, 1, acc)
    ELSE [acc EXCEPT !.exc = "Exception"]

\* decode_ephemerides(payload, satsys, mtype) with payload.pos = pos:
\* [pos, exc, raw, msg], pos being payload.pos after the call
decode_ephemerides(payload, pos, satsys, mtype) ==
    LET start == [pos |-> pos, exc |-> "", raw |-> EmptyDict] IN
    EphEnd(satsys, mtype,
        CASE satsys = "G" -> EphRead(payload, EphLayoutG, 1, start)
          [] satsys = "R" -> EphRead(payload, EphLayoutR, 1, start)
          [] satsys = "E" ->
                EphGalileo(payload, mtype, EphRead(payload, EphLayoutE, 1, start))
          [] satsys = "J" -> EphRead(payload, EphLayoutJ, 1, start)
          [] satsys = "C" -> EphRead(payload, EphLayoutC, 1, start)
          [] satsys = "I" -> EphRead(payload, EphLayoutI, 1, start)
          [] OTHER        -> [start EXCEPT !.exc = "Exception"])

\* ---------------------------------------------------------------- session

\* the attributes of an Ssr object the CSSR decoders read or assign
AttrNames ==
    {"subtype", "msgnum", "epoch", "hepoch", "interval", "mmi", "iod",
     "satsys", "nsatmask", "nsigmask", "cellmask", "gsys", "gsig",
     "stat_bsat", "stat_bsig", "stat_both", "stat_bnull"}

\* the six attributes of the mask context
MaskAttrs == {"satsys", "nsatmask", "nsigmask", "cellmask", "gsys", "gsig"}

\* the four bit counters
StatAttrs == {"stat_bsat", "stat_bsig", "stat_both", "stat_bnull"}

\* msgnum has no class-level default: NoAttr marks the missing attribute
NoAttr == -1

\* the class-level defaults of class Ssr. mmi holds the bits of the
\* indicator once a header is decoded; its default, the integer 0, is
\* written as no bits
ClassDefaults ==
    [subtype |-> 0, msgnum |-> NoAttr, epoch |-> 0, hepoch |-> 0,
     interval |-> 0, mmi |-> <<>>, iod |-> 0,
     satsys |-> <<>>, nsatmask |-> <<>>, nsigmask |-> <<>>, cellmask |-> <<>>,
     gsys |-> EmptyDict, gsig |-> EmptyDict,
     stat_bsat |-> 0, stat_bsig |-> 0, stat_both |-> 0, stat_bnull |-> 0]

\* the sessions (Ssr objects) of the model
Sessions == {1, 2}

VARIABLES
    cls,     \* the class attributes of Ssr
    inst,    \* inst[s]: the instance attributes of session s
    own,     \* own[s]: the names of the attributes s has as instance attributes
    out,     \* out[s]: what the last call on s returned or raised
    inp,     \* the last call: the operation, the session and the payload
    hist,    \* hist[s]: the payloads fed to s, in order
    eph,     \* the last call of Eph.decode_ephemerides and how it ended
    ncalls   \* the number of calls made

vars == <<cls, inst, own, out, inp, hist, eph, ncalls>>

\* attribute lookup self.k: the instance attribute, else the class attribute
View(s) == [k \in AttrNames |-> IF k \in own[s] THEN inst[s][k] ELSE cls[k]]

\* a variant of NewClass in which the mask lists and dicts of the class are
\* the ones the decoder fills
NewClassShared(c, f) ==
    [k \in AttrNames |-> IF k \in f.wr \cap MaskAttrs THEN f.st[k] ELSE c[k]]

\* the class attributes after a call with frame f: "self.k = v" binds an
\* instance attribute and never changes the class; no decoder changes a
\* list or dict in place
NewClass(c, f) == c

\* the instance attributes after a call with frame f
NewInst(i, f) == [k \in AttrNames |-> IF k \in f.wr THEN f.st[k] ELSE i[k]]

NoCall == [pos |-> 0, exc |-> "", str |-> <<>>, recs |-> <<>>, wr |-> {}]

NoEph == [payload |-> <<>>, satsys |-> "", mtype |-> "", pos |-> 0,
          exc |-> "", raw |-> EmptyDict, msg |-> <<>>]

Init ==
    /\ cls = ClassDefaults
    /\ inst = [s \in Sessions |-> ClassDefaults]
    /\ own = [s \in Sessions |-> {}]
    /\ out = [s \in Sessions |-> NoCall]
    /\ inp = [op |-> "", s |-> 0, payload |-> <<>>]
    /\ hist = [s \in Sessions |-> <<>>]
    /\ eph = NoEph
    /\ ncalls = 0

\* the effect of a call on session s whose frame is f
Call(op, s, payload, f, str) ==
    /\ cls' = NewClass(cls, f)
    /\ inst' = [inst EXCEPT ![s] = NewInst(inst[s], f)]
    /\ own' = [own EXCEPT ![s] = own[s] \cup f.wr]
    /\ out' = [out EXCEPT ![s] = [pos |-> f.pos, exc |-> f.exc, str |-> str,
                                  recs |-> f.recs, wr |-> f.wr]]
    /\ inp' = [op |-> op, s |-> s, payload |-> payload]
    /\ hist' = [hist EXCEPT ![s] = Append(hist[s], payload)]
    /\ eph' = eph
    /\ ncalls' = ncalls + 1

\* one call s.decode_cssr(payload)
CallCssr(s, payload, f) == Call("cssr", s, payload, f, f.str)

DecodeCssr(s, payload) == CallCssr(s, payload, decode_cssr(View(s), payload))

\* one call s.decode_has_mask(has_msg, pos)
DecodeHasMask(s, has_msg, pos) ==
    Call("has_mask", s, has_msg, decode_has_mask(View(s), has_msg, pos), <<>>)

\* ----------------------------------------------------------------- inputs
\* The payloads fed to the decoders are built field by field, the way the
\* CSSR message layout (IS-QZSS-L6) packs them, and then cut to a length.

\* v as n bits, most significant first
RECURSIVE Enc(_, _)
Enc(v, n) == IF n = 0 THEN <<>> ELSE Append(Enc(v \div 2, n - 1), v % 2)

\* v as n bits, two's complement
EncS(v, n) == Enc(IF v < 0 THEN v + Pow2(n) ELSE v, n)

\* the first n bits of p
Trunc(p, n) == SubSeq(p, 1, n)

\* the header of a mask message (subtype 1)
EncHead1(epoch, interval, mmi, iod) ==
    Enc(CSSR_MSGNUM, 12) \o Enc(1, 4) \o Enc(epoch, 20) \o Enc(interval, 4)
        \o <<mmi>> \o Enc(iod, 4)

\* the header of a message of subtype st other than 1 and 10
EncHead(st, hepoch, interval, mmi, iod) ==
    Enc(CSSR_MSGNUM, 12) \o Enc(st, 4) \o Enc(hepoch, 12) \o Enc(interval, 4)
        \o <<mmi>> \o Enc(iod, 4)

\* the header of a service information message (subtype 10)
EncHead10 == Enc(CSSR_MSGNUM, 12) \o Enc(10, 4)

\* one GNSS of a mask message: id, satellites (a set of 1..40), signals (a
\* set of 0..15), cell-mask-available flag and the cell mask bits sent
EncGnss(id, sats, sigs, cmavail, cells) ==
    Enc(id, 4) \o [i \in 1..40 |-> IF i \in sats THEN 1 ELSE 0]
        \o [i \in 1..16 |-> IF (i - 1) \in sigs THEN 1 ELSE 0]
        \o <<cmavail>> \o cells

\* the number of decode calls of a behaviour
MaxCalls == 2

\* mask: GPS, satellite 1, signal 0, the cell mask 1 (111 bits)
MsgMaskG1 == EncHead1(100, 1, 0, 3) \o Enc(1, 4) \o EncGnss(0, {1}, {0}, 1, <<1>>)

\* mask: GPS, satellites 1 and 3, signals 0 and 2, cell mask 1011 (114 bits)
MsgMaskG2 ==
    EncHead1(200, 2, 1, 5) \o Enc(1, 4)
        \o EncGnss(0, {1, 3}, {0, 2}, 1, <<1, 0, 1, 1>>)

\* mask: Galileo satellite 2, then GPS satellite 5, each with a one-bit cell
\* mask (173 bits)
MsgMaskEG ==
    EncHead1(300, 0, 0, 7) \o Enc(2, 4)
        \o EncGnss(2, {2}, {0}, 1, <<1>>) \o EncGnss(0, {5}, {11}, 1, <<1>>)

\* mask with the undefined GNSS id 7
MsgMaskBadId ==
    EncHead1(400, 0, 0, 9) \o Enc(1, 4) \o EncGnss(7, {1}, {0}, 0, <<>>)

\* orbit correction of one GPS satellite: radial is the sentinel, along 0
MsgSt2 ==
    EncHead(2, 1234, 3, 1, 6) \o Enc(77, 8) \o EncS(-16384, 15)
        \o EncS(0, 13) \o EncS(-4096, 13)

\* clock correction of two satellites: the sentinel, then 0
MsgSt3 == EncHead(3, 1235, 3, 0, 6) \o EncS(-16384, 15) \o EncS(0, 15)

\* the body after the header of subtypes 4..9, 11, 12 in these inputs:
\* flags and counts clear, enough bits for the fixed part of any subtype
ZeroBody == [i \in 1..20 |-> 0]

MsgPlain(st) == EncHead(st, 1000 + st, 1, 0, 8) \o ZeroBody

\* service information: counter 5, data size 0 (40 bits of data)
MsgSt10 == EncHead10 \o Enc(5, 3) \o Enc(0, 2) \o [i \in 1..40 |-> i % 2]

\* a message of 16 bits whose message number is 1
MsgOther == Enc(1, 12) \o Enc(9, 4)

\* a message whose message number is 4072, of 12 bits and of 50 bits
MsgOther12 == Enc(4072, 12)

MsgOther50 == Enc(4072, 12) \o Enc(2, 4) \o [i \in 1..34 |-> 1]

\* zero padding
MsgNull == [i \in 1..24 |-> 0]

\* a HAS mask read at offset 0: Galileo satellite 1, signal 0, the cell
\* mask 1, navigation message index 0, 6 reserved bits, then 40 more bits
HasMaskE ==
    Enc(1, 4) \o EncGnss(2, {1}, {0}, 1, <<1>>) \o Enc(0, 3) \o Enc(0, 6)
        \o [i \in 1..40 |-> 1]

\* a HAS mask of 110 bits that announces a cell mask of 5 x 10 cells and
\* ends after 45 of them
HasMaskCut ==
    Enc(1, 4) \o EncGnss(2, 1..5, 0..9, 1, [i \in 1..45 |-> 1])

\* the complete messages of these inputs
CompleteMsgs ==
    {MsgMaskG1, MsgMaskG2, MsgMaskEG, MsgSt2, MsgSt3, MsgSt10}
        \cup {MsgPlain(st) : st \in {4, 5, 6, 7, 8, 9, 11, 12}}

MaskMsgs == {MsgMaskG1, MsgMaskG2, MsgMaskEG, MsgMaskBadId,
             Trunc(MsgMaskG2, 112), Trunc(MsgMaskEG, 171),
             Trunc(MsgMaskG1, 109), Trunc(MsgMaskG1, 47)}

CorrectionMsgs ==
    {MsgSt2, MsgSt3, MsgSt10, Trunc(MsgSt2, 60), Trunc(MsgSt2, 30),
     Trunc(MsgSt2, 8), Trunc(MsgSt3, 52), Trunc(MsgSt10, 16),
     Trunc(MsgSt10, 40)}
        \cup {MsgPlain(st) : st \in {4, 5, 6, 7, 8, 9, 11, 12}}

UnknownMsgs == {MsgPlain(st) : st \in {0, 13, 14, 15}}

NullMsgs == {MsgOther, MsgOther12, MsgOther50, MsgNull}

HasMaskMsgs == {HasMaskE, HasMaskCut, Trunc(HasMaskE, 70)}

DecodeMaskMsg == \E p \in MaskMsgs : ncalls < MaxCalls /\ DecodeCssr(1, p)

DecodeCorrectionMsg ==
    \E p \in CorrectionMsgs : ncalls < MaxCalls /\ DecodeCssr(1, p)

DecodeUnknownMsg == \E p \in UnknownMsgs : ncalls < MaxCalls /\ DecodeCssr(1, p)

DecodeNullMsg == \E p \in NullMsgs : ncalls < MaxCalls /\ DecodeCssr(1, p)

DecodeHasMaskMsg ==
    \E p \in HasMaskMsgs : ncalls < MaxCalls /\ DecodeHasMask(1, p, 0)

Next ==
    \/ DecodeMaskMsg
    \/ DecodeCorrectionMsg
    \/ DecodeUnknownMsg
    \/ DecodeNullMsg
    \/ DecodeHasMaskMsg

Spec == Init /\ [][Next]_vars

\* two sessions of the same process, each fed messages of PairMsgs
MaxPairCalls == 4

PairMsgs == {MsgMaskG1, Trunc(MsgMaskG2, 112), MsgSt2, MsgOther}

DecodeFirst == \E p \in PairMsgs : ncalls < MaxPairCalls /\ DecodeCssr(1, p)

DecodeSecond == \E p \in PairMsgs : ncalls < MaxPairCalls /\ DecodeCssr(2, p)

NextPair == DecodeFirst \/ DecodeSecond

SpecPair == Init /\ [][NextPair]_vars

\* ------------------------------------------------------------ properties

\* the message number and the subtype a payload carries
MsgNumOf(p) == Uint(Slice(p, 0, 12))

SubtypeOf(p) == Uint(Slice(p, 12, 16))

\* the session of the last call, and what it sees
Cur == View(inp.s)

\* the mask context and the bit counters of a state st
MaskOf(st) == [k \in MaskAttrs |-> st[k]]

StatsOf(st) == [k \in StatAttrs |-> st[k]]

\* the last call was s.decode_cssr(payload)
CssrCalled == inp.op = "cssr" /\ inp.s \in Sessions

\* the complete messages of the subtypes that are decoded against the mask
MaskDependentMsgs ==
    {m \in CompleteMsgs : SubtypeOf(m) \in {2, 3, 4, 5, 6, 7, 8, 9, 11, 12}}

\* C1: while the session has decoded no mask, decode_cssr of a complete
\* message of a mask-dependent subtype (2..9, 11, 12) ends in an error and
\* never in a success against the empty mask.
C1_SequencingError ==
    (/\ CssrCalled
     /\ own[inp.s] \cap MaskAttrs = {}
     /\ inp.payload \in MaskDependentMsgs)
        => out[inp.s].exc # ""

\* C2: the six fields of the mask context change only in a step that is a
\* successful decode of a subtype-1 message (or of a HAS mask); every other
\* call leaves them as they were.
C2_MaskChangesOnlyOnSt1 ==
    [][\A s \in Sessions :
          MaskOf(View(s))' # MaskOf(View(s))
              => /\ inp'.s = s
                 /\ \/ inp'.op = "cssr" /\ SubtypeOf(inp'.payload) = 1
                    \/ inp'.op = "has_mask"
                 /\ out'[s].exc = "" /\ out'[s].pos > 0]_vars

\* C3: a call returns a position p with 0 <= p <= len(payload), p = 0 being
\* the answer to a payload that is too short; reading past the end never
\* raises.
C3_PosWithinPayload ==
    (inp.s \in Sessions) =>
        /\ out[inp.s].exc \notin {"IndexError", "InterpretError"}
        /\ out[inp.s].exc = "" => out[inp.s].pos \in 0..Len(inp.payload)

\* the frames a and b are the same decoding: result, records, mask
\* context and bit counters
SameDecoding(a, b) ==
    /\ a.pos = b.pos /\ a.exc = b.exc /\ a.recs = b.recs
    /\ MaskOf(a.st) = MaskOf(b.st) /\ StatsOf(a.st) = StatsOf(b.st)

\* p is the beginning of m, and m is longer
IsCutOf(p, m) == Len(p) < Len(m) /\ Trunc(m, Len(p)) = p

\* the step calls decode_cssr with a payload that is not null data and the
\* call returns position 0: the payload is too short
ShortStep(s) ==
    /\ inp'.op = "cssr" /\ inp'.s = s
    /\ ContainsOne(inp'.payload)
    /\ Len(inp'.payload) < 12 \/ MsgNumOf(inp'.payload) = CSSR_MSGNUM
    /\ out'[s].exc = "" /\ out'[s].pos = 0

\* C4: a call that returns 0 because the payload is too short leaves the
\* mask context and the four bit counters as they were, and the complete
\* message decodes after it exactly as it would have decoded instead of it.
C4_ShortLeavesState ==
    [][\A s \in Sessions :
          ShortStep(s) =>
              /\ MaskOf(View(s))' = MaskOf(View(s))
              /\ StatsOf(View(s))' = StatsOf(View(s))
              /\ \A m \in CompleteMsgs :
                    IsCutOf(inp'.payload, m)
                        => decode_cssr(View(s)', m) = decode_cssr(View(s), m)]_vars

\* a clock message cut inside the second satellite was answered with 0 in
\* a session that holds a mask of two satellites
C4_Witness ==
    /\ CssrCalled /\ inp.payload = Trunc(MsgSt3, 52)
    /\ out[inp.s].exc = "" /\ out[inp.s].pos = 0
    /\ Len(SatList(Cur)) = 2 /\ Cur.stat_both > 0

\* the step calls decode_cssr with a complete header of message number 4073
\* and a subtype outside 1..12
UnknownStep(s) ==
    /\ inp'.op = "cssr" /\ inp'.s = s
    /\ Len(inp'.payload) >= 37
    /\ MsgNumOf(inp'.payload) = CSSR_MSGNUM
    /\ SubtypeOf(inp'.payload) \in {0, 13, 14, 15}

\* C5: decode_cssr of message number 4073 with a complete header and
\* subtype 0, 13, 14 or 15 raises; the mask context stays, and a correction
\* message of a known subtype decodes after it as it would have before it.
C5_UnknownSubtype ==
    [][\A s \in Sessions :
          UnknownStep(s) =>
              /\ out'[s].exc = "Exception"
              /\ MaskOf(View(s))' = MaskOf(View(s))
              /\ \A m \in MaskDependentMsgs \cup {MsgSt10} :
                    SameDecoding(decode_cssr(View(s)', m),
                                 decode_cssr(View(s), m))]_vars

\* a message of unknown subtype was refused in a session that holds a mask
C5_Witness ==
    /\ CssrCalled /\ inp.payload \in UnknownMsgs
    /\ out[inp.s].exc = "Exception"
    /\ Len(SatList(Cur)) > 0

\* the step calls decode_cssr with 12 bits or more, a 1 bit among them, and
\* a message number other than 4073
NullStep(s) ==
    /\ inp'.op = "cssr" /\ inp'.s = s
    /\ Len(inp'.payload) >= 12
    /\ ContainsOne(inp'.payload)
    /\ MsgNumOf(inp'.payload) # CSSR_MSGNUM

\* C6: a payload of 12 bits or more that holds a 1 bit and whose first 12
\* bits are not 4073 is no error: decode_cssr returns (0, ''), subtype is 0,
\* stat_bnull grows by len(payload), the mask context and the other three
\* counters stay.
C6_ForeignMessage ==
    [][\A s \in Sessions :
          NullStep(s) =>
              /\ out'[s].exc = "" /\ out'[s].pos = 0 /\ out'[s].str = <<>>
              /\ View(s)'.subtype = 0
              /\ View(s)'.stat_bnull = View(s).stat_bnull + Len(inp'.payload)
              /\ MaskOf(View(s))' = MaskOf(View(s))
              /\ \A k \in StatAttrs \ {"stat_bnull"} :
                    View(s)'[k] = View(s)[k]]_vars

\* a foreign message of 50 bits was counted in a session that holds a mask
C6_Witness ==
    /\ CssrCalled /\ inp.payload = MsgOther50
    /\ out[inp.s].pos = 0 /\ out[inp.s].str = <<>>
    /\ Cur.stat_bnull = 50 /\ Len(SatList(Cur)) > 0

\* the header fields other than message number and subtype
HeadAttrs == {"epoch", "hepoch", "interval", "mmi", "iod"}

\* the length of the header of p, and the fields it encodes
HeaderLen(p) ==
    IF SubtypeOf(p) = 1 THEN 45 ELSE IF SubtypeOf(p) = 10 THEN 16 ELSE 37

EpochAttr(p) == IF SubtypeOf(p) = 1 THEN "epoch" ELSE "hepoch"

EncodedHead(p) ==
    LET e == IF SubtypeOf(p) = 1 THEN 36 ELSE 28 IN
    [epoch    |-> Uint(Slice(p, 16, e)),
     interval |-> Uint(Slice(p, e, e + 4)),
     mmi      |-> Slice(p, e + 4, e + 5),
     iod      |-> Uint(Slice(p, e + 5, e + 9))]

\* p is a message of number 4073 and subtype 1..12 with its whole header
HasHeader(p) ==
    /\ Len(p) >= 16 /\ MsgNumOf(p) = CSSR_MSGNUM
    /\ SubtypeOf(p) \in 1..12 /\ Len(p) >= HeaderLen(p)

\* the call that led to state st assigned the header fields (the set wr)
\* from payload p
HeadFromPayload(st, wr, p) ==
    /\ {EpochAttr(p), "interval", "mmi", "iod"} \subseteq wr
    /\ st[EpochAttr(p)] = EncodedHead(p).epoch
    /\ st.interval = EncodedHead(p).interval
    /\ st.mmi = EncodedHead(p).mmi
    /\ st.iod = EncodedHead(p).iod

\* the header fields session s holds from an earlier message: assigned on
\* the object by some call, and not by the last one
StaleHead(s) == (HeadAttrs \cap own[s]) \ out[s].wr

\* C7: after a call whose header decoded, for every subtype 1..12, the
\* fields the header of this payload encodes (epoch or hourly epoch, update
\* interval, multiple message indicator, issue of data) are the ones this
\* call read from it, and no header field (neither epoch nor hourly epoch
\* nor any of the other three) holds a value that an earlier message left on
\* the session.
C7_HeaderReplaced ==
    (CssrCalled /\ HasHeader(inp.payload))
        => /\ SubtypeOf(inp.payload) # 10
                 => HeadFromPayload(Cur, out[inp.s].wr, inp.payload)
           /\ StaleHead(inp.s) = {}

\* C8: the value decoded from a sentinel differs from the value decoded
\* from a raw 0: here for the clock corrections of one subtype-3 message.
C8_SentinelDistinct ==
    (/\ CssrCalled /\ HasHeader(inp.payload) /\ SubtypeOf(inp.payload) = 3
     /\ out[inp.s].exc = "" /\ out[inp.s].pos > 0)
        => \A i, j \in 1..Len(out[inp.s].recs) :
              (out[inp.s].recs[i].ic0 = -16384 /\ out[inp.s].recs[j].ic0 = 0)
                  => out[inp.s].recs[i].c0 # out[inp.s].recs[j].c0

\* a fresh session fed the payloads h, one decode_cssr call each, on its
\* own: its attributes and the outcome of its last call
RECURSIVE Replay(_)
Replay(h) ==
    IF h = <<>> THEN [st |-> ClassDefaults, out |-> NoCall]
    ELSE LET f == decode_cssr(Replay(SubSeq(h, 1, Len(h) - 1)).st, h[Len(h)])
         IN [st  |-> f.st,
             out |-> [pos |-> f.pos, exc |-> f.exc, str |-> f.str,
                      recs |-> f.recs, wr |-> f.wr]]

\* C9: what a session shows (mask context, header fields, counters) and
\* what its last call returned are those of a fresh session fed the same
\* payloads on its own, whatever the other session decoded meanwhile; two
\* sessions fed the same payloads show the same.
C9_SessionsIndependent ==
    /\ \A s \in Sessions :
          View(s) = Replay(hist[s]).st /\ out[s] = Replay(hist[s]).out
    /\ \A s, t \in Sessions :
          hist[s] = hist[t] => View(s) = View(t) /\ out[s] = out[t]

\* session 1 decoded a mask and an orbit message against it; then session 2
\* decoded the same orbit message and found no satellite
C9_Witness ==
    /\ hist[1] = <<MsgMaskG1, MsgSt2>> /\ hist[2] = <<MsgSt2>>
    /\ inp.s = 2
    /\ out[1].pos = 86 /\ Len(out[1].recs) = 1
    /\ out[2].pos = 37 /\ Len(out[2].recs) = 0

\* the mask of p, read from pos for n more GNSS, needs bits p does not
\* have: the 61 bits of a GNSS, its cell mask, the 3 bits of the HAS
\* navigation message index, the 6 reserved bits of HAS
RECURSIVE MaskCut(_, _, _, _)
MaskCut(p, pos, n, kind) ==
    IF n = 0 THEN kind = "has" /\ Len(p) < pos + 6
    ELSE IF Len(p) < pos + 61 THEN TRUE
    ELSE LET ncell == Len(SetBits(Slice(p, pos + 4, pos + 44)))
                          * Len(SetBits(Slice(p, pos + 44, pos + 60)))
             cm    == pos + 61 + (IF p[pos + 61] = 1 THEN ncell ELSE 0)
             nm    == IF kind = "has" THEN cm + 3 ELSE cm
         IN Len(p) < nm \/ MaskCut(p, nm, n - 1, kind)

MaskIsCut(p, pos, kind) ==
    Len(p) < pos + 4 \/ MaskCut(p, pos + 4, Uint(Slice(p, pos, pos + 4)), kind)

\* C10: the mask builder returns 0 whenever the bits it is about to read are
\* more than the bits that remain: at the count of GNSS, at the 61 bits of
\* each GNSS, at each cell mask, at the HAS navigation message index and at
\* the HAS reserved bits.
C10_CutMaskReturnsZero ==
    (\/ /\ CssrCalled /\ HasHeader(inp.payload) /\ SubtypeOf(inp.payload) = 1
        /\ MaskIsCut(inp.payload, 45, "cssr")
     \/ /\ inp.op = "has_mask" /\ MaskIsCut(inp.payload, 0, "has"))
        => out[inp.s].exc = "" /\ out[inp.s].pos = 0

\* ------------------------------------------------- GNSS ids of the mask

\* the number of decode calls of a behaviour of SpecIds
MaxIdCalls == 2

\* mask of one GNSS with id g: satellite 2, signal 1, the cell mask 1
IdMask(g) ==
    EncHead1(500 + g, 0, 0, g) \o Enc(1, 4) \o EncGnss(g, {2}, {1}, 1, <<1>>)

\* mask of two GNSS: GPS, and then id g, each with a one-bit cell mask
IdMask2(g) ==
    EncHead1(600 + g, 0, 0, g) \o Enc(2, 4)
        \o EncGnss(0, {1}, {0}, 1, <<1>>) \o EncGnss(g, {3}, {0}, 1, <<1>>)

DefinedIdMsgs == {IdMask(g) : g \in 0..5} \cup {IdMask2(2)}

UndefinedIdMsgs == {IdMask(g) : g \in 6..15} \cup {IdMask2(9), IdMask2(15)}

DecodeDefinedId ==
    \E p \in DefinedIdMsgs : ncalls < MaxIdCalls /\ DecodeCssr(1, p)

DecodeUndefinedId ==
    \E p \in UndefinedIdMsgs : ncalls < MaxIdCalls /\ DecodeCssr(1, p)

NextIds == DecodeDefinedId \/ DecodeUndefinedId

SpecIds == Init /\ [][NextIds]_vars

\* the GNSS ids of the n entries of the mask of p that start at pos
RECURSIVE MaskIds(_, _, _)
MaskIds(p, pos, n) ==
    IF n = 0 THEN <<>>
    ELSE LET ncell == Len(SetBits(Slice(p, pos + 4, pos + 44)))
                          * Len(SetBits(Slice(p, pos + 44, pos + 60)))
         IN <<Uint(Slice(p, pos, pos + 4))>>
                \o MaskIds(p, pos + 61 + (IF p[pos + 61] = 1 THEN ncell ELSE 0),
                           n - 1)

\* the ids of a subtype-1 message
MaskIdsOf(p) == MaskIds(p, 49, Uint(Slice(p, 45, 49)))

\* the system letter of a defined GNSS id
SatSysLetter(g) ==
    CASE g = 0 -> "G" [] g = 1 -> "R" [] g = 2 -> "E"
      [] g = 3 -> "C" [] g = 4 -> "J" [] g = 5 -> "S"

\* the step decodes a subtype-1 message that has all the bits of its mask
WholeMaskStep(s) ==
    /\ inp'.op = "cssr" /\ inp'.s = s
    /\ HasHeader(inp'.payload) /\ SubtypeOf(inp'.payload) = 1
    /\ ~MaskIsCut(inp'.payload, 45, "cssr")

\* C11: gnssid2satsys maps 0..5 to G, R, E, C, J, S and fails for 6..15; a
\* mask message with an undefined GNSS id makes decode_cssr raise and leaves
\* the stored mask context (and the bit counters) as they were, while a mask
\* message of defined ids stores the letters of its ids.
C11_UndefinedGnssId ==
    [][/\ \A g \in 0..15 :
             gnssid2satsys(g) = IF g \in 0..5 THEN SatSysLetter(g) ELSE ""
       /\ \A s \in Sessions :
             WholeMaskStep(s) =>
                 IF \E k \in DOMAIN MaskIdsOf(inp'.payload) :
                        MaskIdsOf(inp'.payload)[k] \notin 0..5
                 THEN /\ out'[s].exc = "Exception"
                      /\ MaskOf(View(s))' = MaskOf(View(s))
                      /\ StatsOf(View(s))' = StatsOf(View(s))
                 ELSE /\ out'[s].exc = "" /\ out'[s].pos > 0
                      /\ View(s)'.satsys =
                            [k \in DOMAIN MaskIdsOf(inp'.payload) |->
                                SatSysLetter(MaskIdsOf(inp'.payload)[k])]]_vars

\* a mask whose second GNSS has the undefined id 9 was refused in a session
\* that holds the mask of a Galileo satellite
C11_Witness ==
    /\ CssrCalled /\ inp.payload = IdMask2(9)
    /\ out[inp.s].exc = "Exception"
    /\ Cur.satsys = <<"E">> /\ Cur.gsys["E"] = <<<<"E", 2>>>>

\* -------------------------------------------------- ephemeris decoding runs
\* one call Eph.decode_ephemerides(payload, satsys, mtype) on a fresh stream
DecodeEphemerides(payload, satsys, mtype) ==
    /\ eph' = [payload |-> payload, satsys |-> satsys, mtype |-> mtype]
                  @@ decode_ephemerides(payload, 0, satsys, mtype)
    /\ ncalls' = ncalls + 1
    /\ UNCHANGED <<cls, inst, own, out, inp, hist>>

MaxEphCalls == 1

\* the layout read for a supported satsys and mtype
EphLayout(satsys, mtype) ==
    CASE satsys = "G" -> EphLayoutG
      [] satsys = "R" -> EphLayoutR
      [] satsys = "E" /\ mtype = "F/NAV" -> EphLayoutE \o EphLayoutFNav
      [] satsys = "E" /\ mtype = "I/NAV" -> EphLayoutE \o EphLayoutINav
      [] satsys = "E" -> EphLayoutE
      [] satsys = "J" -> EphLayoutJ
      [] satsys = "C" -> EphLayoutC
      [] satsys = "I" -> EphLayoutI
      [] OTHER        -> EphLayoutG

\* the bits of one field under a fill: 0 all clear; 1 only the leading bit
\* set; 2 all set; 3 only the last bit set. The leading bit of a 32-bit
\* unsigned field stays clear (the field's value stays below 2^31).
EphFieldBits(f, fill) ==
    LET n == IF f[3] = "sm" THEN f[2] + 1 ELSE f[2] IN
    [i \in 1..n |->
        IF i = 1 /\ f[3] = "u" /\ n = 32 THEN 0
        ELSE CASE fill = 0 -> 0
               [] fill = 1 -> IF i = 1 THEN 1 ELSE 0
               [] fill = 2 -> 1
               [] fill = 3 -> IF i = n THEN 1 ELSE 0]

RECURSIVE EphEnc(_, _, _)
EphEnc(layout, fill, k) ==
    IF k > Len(layout) THEN <<>>
    ELSE EphFieldBits(layout[k], fill) \o EphEnc(layout, fill, k + 1)

EphFills == 0..3

\* the payload of a layout: whole, followed by other data, one bit short, or
\* nine bits short (the GLONASS payload then ends inside the magnitude of
\* tgps, whose sign bit is bit 318)
EphCuts == {-9, -1, 0, 8}

EphPayload(satsys, mtype, fill, cut) ==
    LET whole == EphEnc(EphLayout(satsys, mtype), fill, 1) IN
    IF cut < 0 THEN SubSeq(whole, 1, Len(whole) + cut)
    ELSE whole \o [i \in 1..cut |-> 1]

EphSatSys == {"G", "R", "E", "J", "C", "I"}

EphMTypes == {"F/NAV", "I/NAV"}

\* system letters and navigation message types decode_ephemerides has no
\* branch for ('S' is the letter of gnssid2satsys(5))
EphOtherSatSys == {"S", "", "g"}

EphOtherMTypes == {"", "C/NAV", "LNAV"}

DecodeEphSupported ==
    \E satsys \in EphSatSys, mtype \in EphMTypes, fill \in EphFills,
       cut \in EphCuts :
        /\ ncalls < MaxEphCalls
        /\ satsys # "E" => mtype = "I/NAV"
        /\ DecodeEphemerides(EphPayload(satsys, mtype, fill, cut), satsys,
                             IF satsys = "E" THEN mtype ELSE "")

DecodeEphOtherMType ==
    \E mtype \in EphOtherMTypes, fill \in EphFills, cut \in EphCuts :
        /\ ncalls < MaxEphCalls
        /\ DecodeEphemerides(EphPayload("E", mtype, fill, cut), "E", mtype)

DecodeEphOtherSatSys ==
    \E satsys \in EphOtherSatSys, mtype \in {"", "F/NAV"}, fill \in EphFills :
        /\ ncalls < MaxEphCalls
        /\ DecodeEphemerides(EphPayload(satsys, mtype, fill, 0), satsys, mtype)

NextEph == DecodeEphSupported \/ DecodeEphOtherMType \/ DecodeEphOtherSatSys

SpecEph == Init /\ [][NextEph]_vars

\* the number of bits the statements k.. of a layout take
RECURSIVE EphBits(_, _)
EphBits(layout, k) ==
    IF k > Len(layout) THEN 0
    ELSE (IF layout[k][3] = "sm" THEN 1 ELSE 0) + layout[k][2]
             + EphBits(layout, k + 1)

\* decode_ephemerides has been called
EphCalled == eph.satsys # "" \/ Len(eph.payload) > 0

\* C12: decode_ephemerides for Galileo with a navigation message type other
\* than 'F/NAV' and 'I/NAV' ends in an exception and returns no trace summary,
\* and so does a satsys outside G, R, E, J, C, I (before any bit is read); a
\* supported satsys and type whose payload has all its bits returns a summary.
C12_UnknownEphemeris ==
    EphCalled =>
        /\ eph.satsys \notin EphSatSys =>
               eph.exc = "Exception" /\ Len(eph.msg) = 0 /\ eph.pos = 0
        /\ eph.satsys = "E" /\ eph.mtype \notin EphMTypes =>
               /\ Len(eph.msg) = 0
               /\ eph.exc = IF Len(eph.payload) < 474 THEN "ReadError"
                            ELSE "Exception"
        /\ /\ eph.satsys \in EphSatSys
           /\ eph.satsys = "E" => eph.mtype \in EphMTypes
           /\ Len(eph.payload) >= EphBits(EphLayout(eph.satsys, eph.mtype), 1)
           => /\ eph.exc = "" /\ Len(eph.msg) > 0
              /\ eph.pos = EphBits(EphLayout(eph.satsys, eph.mtype), 1)

\* a whole Galileo ephemeris was handed over as 'C/NAV' and refused after its
\* 474 common bits were read
C12_Witness ==
    /\ eph.satsys = "E" /\ eph.mtype = "C/NAV" /\ Len(eph.payload) = 474
    /\ eph.exc = "Exception" /\ eph.pos = 474 /\ Len(eph.msg) = 0

\* a payload for an unsupported system letter was refused
C12_WitnessSatSys ==
    /\ eph.satsys = "S" /\ Len(eph.payload) > 0 /\ eph.exc = "Exception"

\* ------------------------------------------------------------ header runs
MaxHeadCalls == 2

\* a message of subtype st: header, then 24 bits
HeadMsg(st) ==
    (IF st = 1 THEN EncHead1(700, 2, 1, 11)
     ELSE IF st = 10 THEN EncHead10
     ELSE EncHead(st, 700 + st, 2, 1, 11)) \o [i \in 1..24 |-> i % 2]

\* the messages of subtypes 1..12 cut one bit before the end of the header,
\* and some cut earlier
ShortHeadMsgs ==
    {Trunc(HeadMsg(st), HeaderLen(HeadMsg(st)) - 1) : st \in 1..12}
        \cup {Trunc(HeadMsg(1), 35), Trunc(HeadMsg(1), 36),
              Trunc(HeadMsg(5), 16), Trunc(HeadMsg(5), 28),
              Trunc(HeadMsg(7), 12)}

\* messages with a whole header: a mask, a clock correction for its
\* satellite cut in its body and whole, a service information message
WholeHeadMsgs ==
    {MsgMaskG1, Trunc(MsgMaskG1, 47), Trunc(MsgSt3, 37), Trunc(MsgSt3, 52),
     MsgSt10}

NullHeadMsgs == {MsgNull, MsgOther, MsgOther50}

DecodeShortHead ==
    \E p \in ShortHeadMsgs : ncalls < MaxHeadCalls /\ DecodeCssr(1, p)

DecodeWholeHead ==
    \E p \in WholeHeadMsgs : ncalls < MaxHeadCalls /\ DecodeCssr(1, p)

DecodeNullHead ==
    \E p \in NullHeadMsgs : ncalls < MaxHeadCalls /\ DecodeCssr(1, p)

NextHead == DecodeShortHead \/ DecodeWholeHead \/ DecodeNullHead

SpecHead == Init /\ [][NextHead]_vars

\* the outcome of a call decode_cssr(p) that ended as o
OutcomeOf(p, o) ==
    IF o.exc # "" THEN "Error"
    ELSE IF ~ContainsOne(p) \/ (Len(p) >= 12 /\ MsgNumOf(p) # CSSR_MSGNUM)
    THEN "MalformedHeader"
    ELSE IF o.pos = 0 THEN "InsufficientData"
    ELSE "Success"

\* C13: the result (pos, string) of decode_cssr tells the outcomes apart: of
\* two calls in a row that end in different outcomes among InsufficientData,
\* MalformedHeader (null data) and success, the results differ.
C13_OutcomesDistinct ==
    [][\A s \in Sessions :
          (/\ inp.op = "cssr" /\ inp.s = s /\ inp'.op = "cssr" /\ inp'.s = s
           /\ out[s].exc = "" /\ out'[s].exc = ""
           /\ OutcomeOf(inp.payload, out[s]) # OutcomeOf(inp'.payload, out'[s]))
              => <<out[s].pos, out[s].str>> # <<out'[s].pos, out'[s].str>>]_vars

\* the payload carries message number 4073 and ends before the end of the
\* header of its subtype
HeaderCut(p) ==
    /\ Len(p) >= 12 /\ MsgNumOf(p) = CSSR_MSGNUM
    /\ Len(p) < 16 \/ Len(p) < HeaderLen(p)

\* C14: for a payload of message number 4073 that ends before the end of the
\* header of its subtype (45, 16 or 37 bits), decode_cssr_head returns 0 and
\* raises nothing; decode_cssr returns (0, '') and no subtype decoder runs:
\* nothing is decoded, the mask context and the bit counters stay, and only
\* header fields are assigned.
C14_ShortHeader ==
    [][\A s \in Sessions :
          (inp'.op = "cssr" /\ inp'.s = s /\ HeaderCut(inp'.payload)) =>
              /\ decode_cssr_head(View(s), inp'.payload).pos = 0
              /\ decode_cssr_head(View(s), inp'.payload).exc = ""
              /\ out'[s].exc = "" /\ out'[s].pos = 0 /\ out'[s].str = <<>>
              /\ out'[s].recs = <<>>
              /\ out'[s].wr \subseteq {"msgnum", "subtype", "epoch", "hepoch"}
              /\ MaskOf(View(s))' = MaskOf(View(s))
              /\ StatsOf(View(s))' = StatsOf(View(s))]_vars

\* a mask message of 44 bits, one bit less than its header, was answered
\* with (0, '') in a session that holds a mask
C14_Witness ==
    /\ CssrCalled /\ inp.payload = Trunc(HeadMsg(1), 44)
    /\ out[inp.s].exc = "" /\ out[inp.s].pos = 0 /\ out[inp.s].str = <<>>
    /\ Cur.epoch = 700 /\ Len(SatList(Cur)) > 0

\* -------------------------------------------------------------- mask runs
MaxMaskCalls == 2

\* mask: GPS satellites 1, 3, 5 and signals 0, 2 with the cell mask 110110
MsgMask32 ==
    EncHead1(800, 1, 0, 2) \o Enc(1, 4)
        \o EncGnss(0, {1, 3, 5}, {0, 2}, 1, <<1, 1, 0, 1, 1, 0>>)

\* mask that lists GPS twice: satellites 1, 3 with signals 0, 2 and the cell
\* mask 1011, then satellite 5 with signal 0 and the cell mask 1
MsgMaskDup ==
    EncHead1(810, 1, 0, 4) \o Enc(2, 4)
        \o EncGnss(0, {1, 3}, {0, 2}, 1, <<1, 0, 1, 1>>)
        \o EncGnss(0, {5}, {0}, 1, <<1>>)

\* the same two entries the other way round
MsgMaskDupUp ==
    EncHead1(820, 1, 0, 4) \o Enc(2, 4)
        \o EncGnss(0, {5}, {0}, 1, <<1>>)
        \o EncGnss(0, {1, 3}, {0, 2}, 1, <<1, 0, 1, 1>>)

\* mask: QZSS satellite 2 with signals 0, 1, 4 and the cell mask 111, then
\* GLONASS satellites 7, 40 with signal 15 and the cell mask 01
MsgMaskJR ==
    EncHead1(830, 0, 1, 6) \o Enc(2, 4)
        \o EncGnss(4, {2}, {0, 1, 4}, 1, <<1, 1, 1>>)
        \o EncGnss(1, {7, 40}, {15}, 1, <<0, 1>>)

\* masks whose cell-mask-available flag is clear (no cell mask is sent):
\* GPS satellite 1 with signal 0, followed by 8 clear bits of other data
MsgMaskG1NoCm ==
    EncHead1(840, 1, 0, 3) \o Enc(1, 4) \o EncGnss(0, {1}, {0}, 0, <<>>)
        \o Enc(0, 8)

\* the same mask, nothing after it (110 bits)
MsgMaskG1NoCmEnd ==
    EncHead1(840, 1, 0, 3) \o Enc(1, 4) \o EncGnss(0, {1}, {0}, 0, <<>>)

\* QZSS satellite 2 with signals 0, 1, 4 and no cell mask, then GLONASS
\* satellites 7, 40 with signal 15 and the cell mask 01
MsgMaskJRNoCm ==
    EncHead1(850, 0, 1, 6) \o Enc(2, 4)
        \o EncGnss(4, {2}, {0, 1, 4}, 0, <<>>)
        \o EncGnss(1, {7, 40}, {15}, 1, <<0, 1>>)

\* HAS mask of Galileo satellite 1, signal 0, no cell mask, navigation
\* message index 0, 6 reserved bits, then 40 more bits
HasMaskENoCm ==
    Enc(1, 4) \o EncGnss(2, {1}, {0}, 0, <<>>) \o Enc(0, 3) \o Enc(0, 6)
        \o [i \in 1..40 |-> 1]

\* HAS mask: Galileo satellites 4, 9 with signals 0, 3 and the cell mask 0111,
\* navigation message index 0, 6 reserved bits, then 40 more bits
HasMaskCm ==
    Enc(1, 4) \o EncGnss(2, {4, 9}, {0, 3}, 1, <<0, 1, 1, 1>>) \o Enc(0, 3)
        \o Enc(0, 6) \o [i \in 1..40 |-> 1]

CssrMaskMsgs ==
    {MsgMaskG1, MsgMaskG2, MsgMaskEG, MsgMask32, MsgMaskJR, MsgMaskDup,
     MsgMaskDupUp, Trunc(MsgMaskG2, 112), Trunc(MsgMaskG2, 110),
     MsgMaskG1NoCm, MsgMaskG1NoCmEnd, MsgMaskJRNoCm}

HasMasks == {HasMaskE, HasMaskCm, HasMaskENoCm}

DecodeCssrMask ==
    \E p \in CssrMaskMsgs : ncalls < MaxMaskCalls /\ DecodeCssr(1, p)

DecodeHasMaskAt0 ==
    \E p \in HasMasks : ncalls < MaxMaskCalls /\ DecodeHasMask(1, p, 0)

NextMask == DecodeCssrMask \/ DecodeHasMaskAt0

SpecMask == Init /\ [][NextMask]_vars

\* the last call was a mask decode (subtype 1, or HAS mask) that returned a
\* position
MaskDecoded ==
    /\ inp.s \in Sessions
    /\ \/ inp.op = "cssr" /\ HasHeader(inp.payload) /\ SubtypeOf(inp.payload) = 1
       \/ inp.op = "has_mask"
    /\ out[inp.s].exc = "" /\ out[inp.s].pos > 0

\* C15: after a successful mask decode, the cell mask of every entry i of the
\* stored mask has len(gsys[satsys[i]]) * len(gsig[satsys[i]]) bits, one per
\* (satellite, signal) pair in row-major order.
C15_CellMaskLength ==
    MaskDecoded =>
        \A i \in 1..Len(Cur.satsys) :
            Len(Cur.cellmask[i])
                = Len(Cur.gsys[Cur.satsys[i]]) * Len(Cur.gsig[Cur.satsys[i]])

\* the entries a mask message p sends, n of them from pos on: the GNSS id,
\* the 1-based places of the set satellite bits, the 0-based places of the
\* set signal bits, the flag, and the place of the bit after the flag
RECURSIVE SentEntries(_, _, _, _)
SentEntries(p, pos, n, nmbits) ==
    IF n = 0 THEN <<>>
    ELSE LET sats == {b \in 1..40 : p[pos + 4 + b] = 1}
             sigs == {b \in 0..15 : p[pos + 45 + b] = 1}
             cm   == p[pos + 61]
             ncm  == IF cm = 1 THEN Cardinality(sats) * Cardinality(sigs) ELSE 0
         IN <<[id |-> Uint(SubSeq(p, pos + 1, pos + 4)), sats |-> sats,
               sigs |-> sigs, cm |-> cm, at |-> pos + 61,
               cells |-> IF cm = 1 THEN SubSeq(p, pos + 62, pos + 61 + ncm)
                         ELSE [c \in 1..Cardinality(sats) * Cardinality(sigs)
                                   |-> 1]]>>
             \o SentEntries(p, pos + 61 + ncm + nmbits, n - 1, nmbits)

\* the entries of the last mask message
SentMask ==
    IF inp.op = "cssr"
    THEN SentEntries(inp.payload, 49, Uint(SubSeq(inp.payload, 46, 49)), 0)
    ELSE SentEntries(inp.payload, 4, Uint(SubSeq(inp.payload, 1, 4)), 3)

\* the list l is strictly ascending and its elements are the set S
AscendingListOf(l, S) ==
    /\ Len(l) = Cardinality(S)
    /\ \A j \in 1..Len(l) : l[j] \in S
    /\ \A j \in 1..Len(l) - 1 : l[j] < l[j + 1]

\* the position after the last entry of the sent mask
SentEnd ==
    LET e == SentMask[Len(SentMask)] IN
    e.at + (IF e.cm = 1 THEN Len(e.cells) ELSE 0)
         + (IF inp.op = "cssr" THEN 0 ELSE 3 + 6)

\* C17: a successful mask decode stores, for each GNSS entry of the message,
\* its system letter, the ascending list of its satellites (bit position + 1),
\* the names of its signals in ascending bit order, the two counts, and as the
\* cell mask the nsat * nsig bits after a set cell-mask-available flag or
\* nsat * nsig ones when the flag is clear (no bits consumed); the stored
\* mask has the entries of this message and nothing else.
C17_MaskFromMessage ==
    MaskDecoded =>
        /\ Len(Cur.satsys) = Len(SentMask)
        /\ DOMAIN Cur.gsys = {Cur.satsys[i] : i \in 1..Len(Cur.satsys)}
        /\ DOMAIN Cur.gsig = DOMAIN Cur.gsys
        /\ out[inp.s].pos = SentEnd
        /\ \A i \in 1..Len(SentMask) :
              LET e == SentMask[i]
                  g == Cur.gsys[Cur.satsys[i]]
              IN
              /\ Cur.satsys[i] = SatSysLetter(e.id)
              /\ \A j \in 1..Len(g) : g[j][1] = Cur.satsys[i]
              /\ AscendingListOf([j \in 1..Len(g) |-> g[j][2]], e.sats)
              /\ Cur.gsig[Cur.satsys[i]]
                    = [j \in 1..Cardinality(e.sigs) |->
                          sigmask2signame(Cur.satsys[i],
                              CHOOSE b \in e.sigs :
                                  Cardinality({c \in e.sigs : c < b}) = j - 1)]
              /\ Cur.nsatmask[i] = Cardinality(e.sats)
              /\ Cur.nsigmask[i] = Cardinality(e.sigs)
              /\ Cur.cellmask[i] = e.cells
              /\ Len(e.cells) = Cardinality(e.sats) * Cardinality(e.sigs)

\* -------------------------------------------------------------- cell runs
MaxCellCalls == 2

\* n bits of no particular meaning
FillBits(n) == [i \in 1..n |-> IF (i * i + i \div 3) % 5 \in {0, 3} THEN 1 ELSE 0]

\* code bias and phase bias messages: header, then 150 bits of values
MsgSt4 == EncHead(4, 1004, 1, 0, 8) \o FillBits(150)

MsgSt5 == EncHead(5, 1005, 1, 0, 8) \o FillBits(150)

\* network bias message: the three flags (the network flag set), network id
\* 3, the bits sv that begin the network SV masks, then 150 bits of values
MsgSt6(f_cb, f_pb, sv) ==
    EncHead(6, 1006, 1, 0, 8) \o <<f_cb, f_pb, 1>> \o Enc(3, 5) \o sv
        \o FillBits(150)

\* HAS code bias and phase bias: validity interval index 2, then values
HasBias == Enc(2, 4) \o FillBits(150)

CellMaskMsgs == {MsgMaskG2, MsgMaskJR, MsgMaskDup}

CellBiasMsgs ==
    {MsgSt4, MsgSt5, MsgSt6(1, 1, <<1, 1, 1>>), MsgSt6(1, 1, <<0, 1, 1>>),
     MsgSt6(1, 0, <<1, 0, 1>>), MsgSt6(0, 1, <<1, 1, 0>>)}

\* one call s.decode_has_cbias(payload, pos)
DecodeHasCbias(s, payload, pos) ==
    Call("has_cbias", s, payload, decode_has_cbias(View(s), payload, pos), <<>>)

\* one call s.decode_has_pbias(payload, pos)
DecodeHasPbias(s, payload, pos) ==
    Call("has_pbias", s, payload, decode_has_pbias(View(s), payload, pos), <<>>)

DecodeCellMask ==
    \E p \in CellMaskMsgs : ncalls < MaxCellCalls /\ DecodeCssr(1, p)

DecodeCellHasMask == ncalls < MaxCellCalls /\ DecodeHasMask(1, HasMaskCm, 0)

DecodeCellBias ==
    \E p \in CellBiasMsgs : ncalls < MaxCellCalls /\ DecodeCssr(1, p)

DecodeCellHasCbias == ncalls < MaxCellCalls /\ DecodeHasCbias(1, HasBias, 0)

DecodeCellHasPbias == ncalls < MaxCellCalls /\ DecodeHasPbias(1, HasBias, 0)

NextCell ==
    \/ DecodeCellMask
    \/ DecodeCellHasMask
    \/ DecodeCellBias
    \/ DecodeCellHasCbias
    \/ DecodeCellHasPbias

SpecCell == Init /\ [][NextCell]_vars

\* the set cells of the stored mask st in mask order: entry i ascending, and
\* within an entry the row-major index c ascending, c ranging over the
\* len(gsys) * len(gsig) pairs of the entry's system
RECURSIVE SetCellsFrom(_, _)
SetCellsFrom(st, i) ==
    IF i > Len(st.satsys) THEN <<>>
    ELSE SelectSeq([c \in 1..Len(st.gsys[st.satsys[i]])
                                * Len(st.gsig[st.satsys[i]]) |-> <<i, c - 1>>],
                   LAMBDA x : st.cellmask[i][x[2] + 1] = 1)
             \o SetCellsFrom(st, i + 1)

\* the satellite and the signal of the cell x = <<i, c>>: c = sat_index *
\* n_signals + sig_index
CellSat(st, x) ==
    st.gsys[st.satsys[x[1]]][(x[2] \div Len(st.gsig[st.satsys[x[1]]])) + 1]

CellSig(st, x) ==
    st.gsig[st.satsys[x[1]]][(x[2] % Len(st.gsig[st.satsys[x[1]]])) + 1]

\* the last call was a cell-iterating decoder that returned a position
CellDecoded ==
    /\ inp.s \in Sessions
    /\ \/ inp.op = "cssr" /\ HasHeader(inp.payload)
                          /\ SubtypeOf(inp.payload) \in {4, 5, 6}
       \/ inp.op \in {"has_cbias", "has_pbias"}
    /\ out[inp.s].exc = "" /\ out[inp.s].pos > 0

\* the bits one cell takes in the last message; subtype 6 reads the code
\* bias and the phase bias of a cell whatever its flags say (each flag is a
\* one-bit bitstring, which is true)
CellWidth ==
    IF inp.op = "has_cbias" THEN 11
    ELSE IF inp.op = "has_pbias" THEN 13
    ELSE IF SubtypeOf(inp.payload) = 4 THEN 11
    ELSE IF SubtypeOf(inp.payload) = 5 THEN 17
    ELSE 11 + 17

\* the number of bits of the network SV masks of subtype 6: one per stored
\* satellite of each entry
RECURSIVE SvBitsBefore(_, _)
SvBitsBefore(st, i) ==
    IF i <= 1 THEN 0
    ELSE SvBitsBefore(st, i - 1) + Len(st.gsys[st.satsys[i - 1]])

\* the place of the first value of the last message
CellStart ==
    IF inp.op \in {"has_cbias", "has_pbias"} THEN 4
    ELSE IF SubtypeOf(inp.payload) = 6
    THEN 45 + SvBitsBefore(Cur, Len(Cur.satsys) + 1)
    ELSE 37

\* the records are the values of the cells in this order: the k-th record
\* names the satellite and the signal of the k-th cell and holds the k-th
\* group of bits, and the position returned is the end of the last group
RecordsOfCells(cells) ==
    /\ Len(out[inp.s].recs) = Len(cells)
    /\ out[inp.s].pos = CellStart + CellWidth * Len(cells)
    /\ \A k \in 1..Len(cells) :
          /\ out[inp.s].recs[k].gsys = CellSat(Cur, cells[k])
          /\ out[inp.s].recs[k].gsig = CellSig(Cur, cells[k])
          /\ out[inp.s].recs[k].pos_mask = cells[k][2]
          /\ out[inp.s].recs[k].at = CellStart + CellWidth * (k - 1)

\* C16 as stated: every cell-iterating decoder (subtypes 4, 5, 6, HAS code
\* bias, HAS phase bias) attributes the k-th value of the payload to the
\* pair at the k-th set bit of the cell masks, in mask order, satellite-major
\* and signal-minor; clear cells take no bits.
C16_CellOrder == CellDecoded => RecordsOfCells(SetCellsFrom(Cur, 1))

\* the network SV mask bit that subtype 6 keeps for the satellite of cell x:
\* svmask[satsys] is the one read for the last entry of that system
SvBit(st, x) ==
    LET last == CHOOSE i \in 1..Len(st.satsys) :
                    /\ st.satsys[i] = st.satsys[x[1]]
                    /\ \A i2 \in 1..Len(st.satsys) :
                          st.satsys[i2] = st.satsys[x[1]] => i2 <= i
    IN inp.payload[45 + SvBitsBefore(st, last)
                      + (x[2] \div Len(st.gsig[st.satsys[x[1]]])) + 1]

\* the set cells that carry a value in the last message: all of them, and
\* for subtype 6 those whose satellite is set in the network SV mask
ValueCells ==
    IF inp.op = "cssr" /\ SubtypeOf(inp.payload) = 6
    THEN SelectSeq(SetCellsFrom(Cur, 1), LAMBDA x : SvBit(Cur, x) = 1)
    ELSE SetCellsFrom(Cur, 1)

\* C16, amended: the same, the cells counted in subtype 6 being the set
\* cells of the satellites that the network SV mask of the message selects.
C16_CellOrderOfSubset == CellDecoded => RecordsOfCells(ValueCells)

\* a network bias message whose SV mask leaves out the first of two GPS
\* satellites gave its only values to the two set cells of the second
C16_Witness ==
    /\ CellDecoded /\ inp.payload = MsgSt6(1, 1, <<0, 1, 1>>)
    /\ Cur.cellmask = <<<<1, 0, 1, 1>>>>
    /\ Len(out[inp.s].recs) = 2
    /\ out[inp.s].recs[1].gsys = <<"G", 3>> /\ out[inp.s].recs[1].pos_mask = 2

\* a HAS phase bias message gave three values to the set cells 1, 2, 3 of a
\* 2 x 2 mask
C16_WitnessHas ==
    /\ CellDecoded /\ inp.op = "has_pbias"
    /\ Cur.cellmask = <<<<0, 1, 1, 1>>>>
    /\ Len(out[inp.s].recs) = 3 /\ out[inp.s].recs[1].pos_mask = 1

\* ---------------------------------------------------------- sentinel runs
\* A session decodes one mask of one satellite and one signal, and then
\* correction messages whose scaled fields all hold the same kind of value.
MaxInvCalls == 2

RawKinds == {"min", "next", "zero", "max"}

\* the n-bit two's-complement value of a kind: the most negative one, the one
\* above it, zero, the largest
RawOf(v, n) ==
    CASE v = "min"  -> -Pow2(n - 1)
      [] v = "next" -> -Pow2(n - 1) + 1
      [] v = "zero" -> 0
      [] v = "max"  -> Pow2(n - 1) - 1

\* the field of n bits that holds the value of kind v
Field(v, n) == EncS(RawOf(v, n), n)

Pad == <<0, 1, 0, 1, 0, 1, 0, 1>>

\* orbit (IODE 9), clock, and combined correction of the network 3 with the
\* SV mask 1
MsgInvSt2(v) ==
    EncHead(2, 1102, 1, 0, 8) \o Enc(9, 8) \o Field(v, 15) \o Field(v, 13)
        \o Field(v, 13) \o Pad

MsgInvSt3(v) == EncHead(3, 1103, 1, 0, 8) \o Field(v, 15) \o Pad

MsgInvSt11(v) ==
    EncHead(11, 1111, 1, 0, 8) \o <<1, 1, 1>> \o Enc(3, 5) \o <<1>>
        \o Enc(9, 8) \o Field(v, 15) \o Field(v, 13) \o Field(v, 13)
        \o Field(v, 15) \o Pad

\* gridded correction of one grid: correction type 1, range crange, network
\* 3, SV mask 1, quality 0, the two vertical delays and one STEC residual
MsgInvSt9(crange, v) ==
    EncHead(9, 1109, 1, 0, 8) \o Enc(1, 2) \o <<crange>> \o Enc(3, 5) \o <<1>>
        \o Enc(0, 6) \o Enc(1, 6) \o Field(v, 9) \o Field(v, 8)
        \o Field(v, IF crange = 1 THEN 16 ELSE 7) \o Pad

\* atmospheric correction of one grid: troposphere residuals only (size
\* trs, offset 0), STEC polynomial of type 0 and residuals of size srs
MsgInvSt12(trs, srs, v) ==
    EncHead(12, 1112, 1, 0, 8) \o <<0, 1>> \o <<1, 0>> \o Enc(3, 5)
        \o Enc(1, 6) \o <<trs>> \o Enc(0, 4)
        \o Field(v, IF trs = 1 THEN 8 ELSE 6) \o <<1>> \o Enc(0, 6)
        \o Enc(0, 2) \o Field(v, 14) \o Enc(srs, 2)
        \o Field(v, <<4, 4, 5, 7>>[srs + 1]) \o Pad \o Pad

\* HAS messages read at offset 0: validity interval index 2, then the fields
\* of one satellite (orbit: IODE 9 of a Galileo satellite; clock: multiplier
\* field 1) or of one cell (phase bias: discontinuity indicator 2)
HasInvOrbit(v) ==
    Enc(2, 4) \o Enc(9, 10) \o Field(v, 13) \o Field(v, 12) \o Field(v, 12)
        \o Pad

HasInvCkful(v) == Enc(2, 4) \o Enc(1, 2) \o Field(v, 13) \o Pad

HasInvCbias(v) == Enc(2, 4) \o Field(v, 11) \o Pad

HasInvPbias(v) == Enc(2, 4) \o Field(v, 11) \o Enc(2, 2) \o Pad

\* HAS subset clock: validity interval index 2, subset count field 1 (two
\* subsets), then GNSS id, multiplier field and clock value of each subset
HasInvCksub(v) ==
    Enc(2, 4) \o Enc(1, 2) \o Enc(2, 4) \o Enc(1, 2) \o Field(v, 13)
        \o Enc(0, 4) \o Enc(0, 2) \o Field(v, 13) \o Pad

InvCssrMsgs ==
    {MsgInvSt2(v) : v \in RawKinds} \cup {MsgInvSt3(v) : v \in RawKinds}
        \cup {MsgInvSt11(v) : v \in RawKinds}
        \cup {MsgInvSt9(c, v) : c \in {0, 1}, v \in RawKinds}
        \cup {MsgInvSt12(t[1], t[2], v) :
                  t \in {<<0, 0>>, <<1, 1>>, <<0, 2>>, <<1, 3>>}, v \in RawKinds}

\* one call s.decode_has_orbit(payload, pos)
DecodeHasOrbit(s, payload, pos) ==
    Call("has_orbit", s, payload, decode_has_orbit(View(s), payload, pos), <<>>)

\* one call s.decode_has_ckful(payload, pos)
DecodeHasCkful(s, payload, pos) ==
    Call("has_ckful", s, payload, decode_has_ckful(View(s), payload, pos), <<>>)

\* one call s.decode_has_cksub(payload, pos)
DecodeHasCksub(s, payload, pos) ==
    Call("has_cksub", s, payload, decode_has_cksub(View(s), payload, pos), <<>>)

\* the mask comes first: of a GPS satellite (CSSR) or a Galileo one (HAS)
DecodeInvMask ==
    /\ ncalls = 0
    /\ DecodeCssr(1, MsgMaskG1) \/ DecodeHasMask(1, HasMaskE, 0)

DecodeInvCssr ==
    \E p \in InvCssrMsgs :
        ncalls >= 1 /\ ncalls < MaxInvCalls /\ DecodeCssr(1, p)

DecodeInvHas ==
    \E v \in RawKinds :
        /\ ncalls >= 1 /\ ncalls < MaxInvCalls
        /\ \/ DecodeHasOrbit(1, HasInvOrbit(v), 0)
           \/ DecodeHasCkful(1, HasInvCkful(v), 0)
           \/ DecodeHasCbias(1, HasInvCbias(v), 0)
           \/ DecodeHasPbias(1, HasInvPbias(v), 0)
           \/ DecodeHasCksub(1, HasInvCksub(v), 0)

NextInv == DecodeInvMask \/ DecodeInvCssr \/ DecodeInvHas

SpecInv == Init /\ [][NextInv]_vars

\* the value val decoded from the raw n-bit value raw with the scale num:
\* INVALID for the most negative raw value, raw * num for every other
DecodesTo(raw, val, n, num) ==
    val = IF raw = -Pow2(n - 1) THEN INVALID ELSE raw * num

\* the last call was decode_cssr of a whole message of a subtype in sts
\* that returned a position
CssrDecoded(sts) ==
    /\ CssrCalled /\ HasHeader(inp.payload) /\ SubtypeOf(inp.payload) \in sts
    /\ out[inp.s].exc = "" /\ out[inp.s].pos > 0

\* the records of the last call
Recs == out[inp.s].recs

\* C18: in the orbit and clock corrections of subtypes 2, 3 and 11 the raw
\* value -2^(n-1) of a field of n bits (15 bits radial and clock, 13 bits
\* along-track and cross-track) decodes to INVALID and every other raw value
\* to raw * scale.
C18_OrbitClockSentinel ==
    /\ CssrDecoded({2}) =>
          \A k \in 1..Len(Recs) :
              /\ DecodesTo(Recs[k].i_radial, Recs[k].d_radial, 15, 16)
              /\ DecodesTo(Recs[k].i_along, Recs[k].d_along, 13, 64)
              /\ DecodesTo(Recs[k].i_cross, Recs[k].d_cross, 13, 64)
    /\ CssrDecoded({3}) =>
          \A k \in 1..Len(Recs) : DecodesTo(Recs[k].ic0, Recs[k].c0, 15, 16)
    /\ CssrDecoded({11}) =>
          \A k \in 1..Len(Recs) :
              /\ Recs[k].f_o =>
                    /\ DecodesTo(Recs[k].id_radial, Recs[k].d_radial, 15, 16)
                    /\ DecodesTo(Recs[k].id_along, Recs[k].d_along, 13, 64)
                    /\ DecodesTo(Recs[k].id_cross, Recs[k].d_cross, 13, 64)
              /\ Recs[k].f_c => DecodesTo(Recs[k].ic0, Recs[k].c0, 15, 16)

\* C19: in the grid residuals (subtype 9 STEC residual of 7 or 16 bits,
\* subtype 12 troposphere residual of 6 or 8 bits, subtype 12 STEC residual
\* of 4, 4, 5 or 7 bits) the most negative value of the selected width
\* decodes to INVALID and every other raw value to raw * scale.
C19_ResidualSentinel ==
    /\ CssrDecoded({9}) =>
          \A k \in 1..Len(Recs) :
              "res" \in DOMAIN Recs[k] =>
                  /\ Recs[k].bw = IF inp.payload[40] = 1 THEN 16 ELSE 7
                  /\ DecodesTo(Recs[k].res, Recs[k].residual, Recs[k].bw, 4)
    /\ CssrDecoded({12}) =>
          \A k \in 1..Len(Recs) :
              /\ Recs[k].kind = "tropo_res" =>
                    DecodesTo(Recs[k].itr, Recs[k].tr, Recs[k].bw, 4)
              /\ Recs[k].kind = "stec_res" =>
                    /\ Recs[k].bw = <<4, 4, 5, 7>>[Recs[k].srs + 1]
                    /\ DecodesTo(Recs[k].isr, Recs[k].sr, Recs[k].bw,
                                 <<4, 12, 16, 24>>[Recs[k].srs + 1])

\* the last call was the HAS decoder op and returned a position
HasDecoded(op) ==
    inp.op = op /\ inp.s \in Sessions /\ out[inp.s].exc = "" /\ out[inp.s].pos > 0

\* C20: in the HAS corrections (orbit fields of 13, 12 and 12 bits, full-set
\* clock of 13 bits, code bias and phase bias of 11 bits) the most negative
\* pattern of a field decodes to INVALID and every other pattern to its value
\* times the scale.
C20_HasSentinel ==
    /\ HasDecoded("has_orbit") =>
          \A k \in 1..Len(Recs) :
              /\ DecodesTo(Sint(Recs[k].i_radial), Recs[k].d_radial, 13, 25)
              /\ DecodesTo(Sint(Recs[k].i_along), Recs[k].d_along, 12, 80)
              /\ DecodesTo(Sint(Recs[k].i_cross), Recs[k].d_cross, 12, 80)
    /\ HasDecoded("has_ckful") =>
          \A k \in 1..Len(Recs) :
              DecodesTo(Sint(Recs[k].ic0), Recs[k].c0, 13,
                        25 * Recs[k].multiplier)
    /\ HasDecoded("has_cbias") =>
          \A k \in 1..Len(Recs) : DecodesTo(Recs[k].icb, Recs[k].cb, 11, 2)
    /\ HasDecoded("has_pbias") =>
          \A k \in 1..Len(Recs) : DecodesTo(Recs[k].ipb, Recs[k].pb, 11, 1)

\* ------------------------------------------------- network correction runs
\* Runs that decode a mask first and then correction messages of subtypes
\* 2..12, among them the subtypes that carry a satellite subset mask (the
\* network SV mask) with every choice of its bits, STEC polynomials of every
\* type, and payloads that end inside a field group.

MaxNetCalls == 2

\* the bits of the STEC polynomial of type t after the quality indicator
StecBits(t) ==
    14 + (IF t >= 1 THEN 24 ELSE 0) + (IF t >= 2 THEN 10 ELSE 0)
       + (IF t >= 3 THEN 16 ELSE 0)

\* orbit correction: n bits after the header
MsgNetSt2(n) == EncHead(2, 1202, 1, 0, 8) \o FillBits(n)

\* bias message without network bias: the three flags (the network flag
\* clear), then 150 bits of values
MsgNetSt6NoNet(f_cb, f_pb) ==
    EncHead(6, 1206, 1, 0, 8) \o <<f_cb, f_pb, 0>> \o FillBits(150)

\* URA: n bits after the header
MsgNetSt7(n) == EncHead(7, 1207, 1, 0, 8) \o FillBits(n)

\* STEC correction: type t, network 3, the bits sv that begin the SV mask,
\* then n bits
MsgNetSt8(t, sv, n) ==
    EncHead(8, 1208, 1, 0, 8) \o Enc(t, 2) \o Enc(3, 5) \o sv \o FillBits(n)

\* gridded correction: correction type 1, range crange, network 3, the bits
\* sv, quality 5, ngrid grids, then n bits
MsgNetSt9(crange, sv, ngrid, n) ==
    EncHead(9, 1209, 1, 0, 8) \o Enc(1, 2) \o <<crange>> \o Enc(3, 5) \o sv
        \o Enc(5, 6) \o Enc(ngrid, 6) \o FillBits(n)

\* combined correction: the three flags, network 3, the bits sv, then n bits
MsgNetSt11(f_o, f_c, f_n, sv, n) ==
    EncHead(11, 1211, 1, 0, 8) \o <<f_o, f_c, f_n>> \o Enc(3, 5) \o sv
        \o FillBits(n)

\* the STEC part of one satellite in subtype 12: quality, type sct,
\* polynomial, residual range srs and the residuals of ngrid grids
NetStecPart(sct, srs, ngrid) ==
    FillBits(6) \o Enc(sct, 2) \o FillBits(StecBits(sct)) \o Enc(srs, 2)
        \o FillBits(ngrid * <<4, 4, 5, 7>>[srs + 1])

\* the troposphere part of subtype 12 for the availability bits tropo:
\* quality 5 and a polynomial of type 1, residuals of size trs and offset 2
NetTropoPart(tropo, trs, ngrid) ==
    (IF tropo[1] = 1 THEN Enc(5, 6) \o Enc(1, 2) \o FillBits(9 + 14)
     ELSE <<>>)
        \o (IF tropo[2] = 1
            THEN <<trs>> \o Enc(2, 4)
                     \o FillBits(ngrid * (IF trs = 1 THEN 8 ELSE 6))
            ELSE <<>>)

\* atmospheric correction of two grids: troposphere part, STEC available,
\* network 3, the bits sv, the STEC parts of two satellites (types and
\* ranges a and b), 8 more bits, the whole cut to its first 37 + n bits
MsgNetSt12(tropo, trs, sv, a, b, n) ==
    Slice(EncHead(12, 1212, 1, 0, 8) \o tropo \o <<1, 0>> \o Enc(3, 5)
              \o Enc(2, 6) \o NetTropoPart(tropo, trs, 2) \o sv
              \o NetStecPart(a[1], a[2], 2) \o NetStecPart(b[1], b[2], 2)
              \o Pad,
          0, 37 + n)

\* mask: GPS, satellites 1 and 3, signals 0 and 2, cell mask 0011: the
\* first satellite has no active cell
MsgMaskNoCell ==
    EncHead1(500, 2, 1, 6) \o Enc(1, 4)
        \o EncGnss(0, {1, 3}, {0, 2}, 1, <<0, 0, 1, 1>>)

NetMaskMsgs == {MsgMaskG1, MsgMaskG2, MsgMaskEG, MsgMaskNoCell}

NetSvMasks == {<<1, 1>>, <<1, 0>>, <<0, 1>>}

NetMsgsSt8 ==
    {MsgNetSt8(t, sv, 150) : t \in 0..3, sv \in NetSvMasks}
        \cup {MsgNetSt8(t, <<1, 0>>, n) : t \in 0..3, n \in {19, 43, 53, 69, 70}}

NetMsgsSt9 ==
    {MsgNetSt9(c, sv, 2, 150) : c \in {0, 1}, sv \in NetSvMasks \cup {<<0, 0>>}}

NetMsgsSt11 ==
    {MsgNetSt11(f[1], f[2], 1, sv, 150) :
         f \in {<<1, 1>>, <<1, 0>>, <<0, 1>>, <<0, 0>>}, sv \in NetSvMasks}
        \cup {MsgNetSt11(1, 1, 0, <<1, 1>>, 150), MsgNetSt11(0, 1, 0, <<0, 0>>, 150),
              MsgNetSt11(1, 1, 1, <<1, 1>>, 60)}

NetMsgsSt12 ==
    {MsgNetSt12(<<0, 0>>, 0, sv, t[1], t[2], 200) :
         sv \in NetSvMasks,
         t \in {<<<<0, 0>>, <<3, 3>>>>, <<<<1, 2>>, <<2, 1>>>>,
                <<<<3, 3>>, <<0, 0>>>>, <<<<2, 2>>, <<2, 2>>>>}}
        \cup {MsgNetSt12(tr[1], tr[2], <<1, 1>>, <<1, 0>>, <<1, 3>>, 200) :
                  tr \in {<<<<0, 1>>, 0>>, <<<<0, 1>>, 1>>, <<<<1, 0>>, 0>>,
                          <<<<1, 1>>, 1>>}}
        \cup {MsgNetSt12(<<0, 0>>, 0, <<1, 0>>, <<3, 1>>, <<0, 0>>, n) :
                  n \in {38, 39, 62, 63, 72, 73, 88, 89, 90, 91, 98, 99}}

NetMsgsOther ==
    {MsgNetSt2(n) : n \in {48, 49, 97, 98, 99, 100, 120}}
        \cup {MsgSt3, MsgSt4, MsgSt5, MsgSt10, MsgNetSt7(11), MsgNetSt7(12)}
        \cup {MsgSt6(1, 1, <<1, 1, 1>>), MsgSt6(1, 0, <<1, 0, 1>>),
              MsgSt6(0, 1, <<0, 1, 0>>), MsgSt6(0, 0, <<1, 1, 1>>)}
        \cup {MsgNetSt6NoNet(1, 1), MsgNetSt6NoNet(0, 1), MsgNetSt6NoNet(0, 0)}

NetMsgs ==
    NetMsgsSt8 \cup NetMsgsSt9 \cup NetMsgsSt11 \cup NetMsgsSt12
        \cup NetMsgsOther

\* the mask comes first
DecodeNetMask ==
    \E p \in NetMaskMsgs : ncalls = 0 /\ DecodeCssr(1, p)

DecodeNetCssr ==
    \E p \in NetMsgs : ncalls >= 1 /\ ncalls < MaxNetCalls /\ DecodeCssr(1, p)

NextNet == DecodeNetMask \/ DecodeNetCssr

SpecNet == Init /\ [][NextNet]_vars

\* the sum of a sequence of integers
RECURSIVE SumSeq(_)
SumSeq(s) == IF s = <<>> THEN 0 ELSE Head(s) + SumSeq(Tail(s))

\* the bits of the troposphere part of the subtype-12 message p, which
\* stands between the grid count and the network SV mask; a residual is read
\* as 8 bits whatever the residual size bit says (the size is a one-bit
\* bitstring, which is true)
NetTropoBits(p) ==
    LET ngrid == Uint(Slice(p, 46, 52))
        ttype == Uint(Slice(p, 58, 60))
        poly  == IF p[38] = 0 THEN 0
                 ELSE 17 + (IF ttype >= 1 THEN 14 ELSE 0)
                         + (IF ttype >= 2 THEN 7 ELSE 0)
        res   == IF p[39] = 0 THEN 0
                 ELSE 5 + ngrid * 8
    IN poly + res

\* the message p of subtype 6, 8, 9, 11 or 12 carries a subset mask: always
\* in 8 and 9, with the network flag in 6 and 11, with STEC in 12
NetCarried(p) ==
    \/ SubtypeOf(p) \in {8, 9}
    \/ SubtypeOf(p) \in {6, 11, 12} /\ p[40] = 1

\* the position where the subset mask of the message p begins
NetStart(p) ==
    CASE SubtypeOf(p) = 8  -> 37 + 2 + 5
      [] SubtypeOf(p) = 9  -> 37 + 2 + 1 + 5
      [] SubtypeOf(p) = 12 -> 37 + 2 + 2 + 5 + 6 + NetTropoBits(p)
      [] OTHER             -> 37 + 3 + 5

\* the names of the stored satellites, GNSS by GNSS in mask order, whose
\* bit in the subset mask of the message p is set
NetSelected(p) ==
    LET sats == SatList(Cur)
        sel  == SelectSeq([k \in 1..Len(sats) |-> k],
                          LAMBDA k : p[NetStart(p) + k] = 1)
    IN [n \in 1..Len(sel) |-> sats[sel[n]].gsys]

\* the last call decoded a whole message that carries a subset mask
NetDecoded ==
    /\ CssrDecoded({6, 8, 9, 11, 12}) /\ NetCarried(inp.payload)
    /\ Len(SatList(Cur)) > 0

\* the records of the last call that hold the fields of one satellite (in
\* subtype 9: of the grid g)
NetSatRecs(g) ==
    CASE SubtypeOf(inp.payload) = 9 ->
            SelectSeq(Recs, LAMBDA r : "gsys" \in DOMAIN r /\ r.grid = g)
      [] SubtypeOf(inp.payload) = 12 ->
            SelectSeq(Recs, LAMBDA r : r.kind = "stec")
      [] OTHER -> Recs

\* the payload bits read for the record r of the last call; subtypes 6 and
\* 11 read both groups of a satellite whatever the two flags of the message
\* say (each flag is a one-bit bitstring, which is true)
NetRecBits(r) ==
    LET p == inp.payload IN
    CASE SubtypeOf(p) = 6 -> 11 + 17
      [] SubtypeOf(p) = 8 -> 6 + StecBits(r.type)
      [] SubtypeOf(p) = 9 -> IF "gsys" \in DOMAIN r THEN r.bw ELSE 9 + 8
      [] SubtypeOf(p) = 11 ->
            (IF r.gsys[1] = "E" THEN 10 ELSE 8) + 41 + 15
      [] SubtypeOf(p) = 12 ->
            CASE r.kind = "stec"     -> 6 + 2 + StecBits(r.type) + 2
              [] r.kind = "stec_res" -> r.bw
              [] OTHER               -> 0

\* the bits between the subset mask and the first record: quality and grid
\* count in subtype 9
NetAfterMask(p) == IF SubtypeOf(p) = 9 THEN 6 + 6 ELSE 0

\* C21: in a message that carries a subset mask (ST6 with network bias, ST8,
\* ST9, ST11 with network correction, ST12 with STEC) one mask bit per stored
\* satellite is read, GNSS by GNSS in mask order, before any per-satellite
\* data: the satellites decoded are those whose bit is set, in that order
\* (in ST6 those of them that have an active cell), every record is read
\* behind the mask, and the returned position is the end of the mask plus
\* the bits of the records, so a satellite with a clear bit consumes no bits.
C21_SubsetMask ==
    NetDecoded =>
        LET p     == inp.payload
            nsat  == Len(SatList(Cur))
            first == NetStart(p) + nsat + NetAfterMask(p)
            sel   == NetSelected(p)
        IN
        /\ Len(p) >= NetStart(p) + nsat
        /\ \A k \in 1..Len(Recs) : "at" \in DOMAIN Recs[k] =>
              \/ Recs[k].at >= first
              \/ SubtypeOf(p) = 12 /\ Recs[k].kind \in {"tropo", "tropo_res"}
        /\ IF SubtypeOf(p) = 6
           THEN /\ \A k \in 1..Len(Recs) :
                      \E n \in 1..Len(sel) : Recs[k].gsys = sel[n]
                /\ Len(Recs) =
                      Cardinality({c \in 1..Len(CellList(Cur)) :
                          /\ CellList(Cur)[c].mask = 1
                          /\ \E n \in 1..Len(sel) :
                                CellList(Cur)[c].gsys = sel[n]})
           ELSE \A g \in 1..(IF SubtypeOf(p) = 9 THEN Uint(Slice(p, first - 6, first))
                             ELSE 1) :
                    [k \in 1..Len(NetSatRecs(g)) |-> NetSatRecs(g)[k].gsys] = sel
        /\ out[inp.s].pos =
              first + SumSeq([k \in 1..Len(Recs) |->
                                 IF SubtypeOf(p) = 12
                                    /\ Recs[k].kind \in {"tropo", "tropo_res"}
                                 THEN 0 ELSE NetRecBits(Recs[k])])

\* a message with a subset mask that selects one of two satellites was
\* decoded, in each of the five subtypes
C21_Witness ==
    /\ NetDecoded /\ SubtypeOf(inp.payload) = 8
    /\ Len(SatList(Cur)) = 2 /\ Len(NetSelected(inp.payload)) = 1
    /\ NetSelected(inp.payload)[1] = SatList(Cur)[2].gsys
    /\ Len(Recs) = 1

\* subtype 8 decoded a satellite whose bit is set and whose cells are all
\* clear in the cell mask, and left out the other
C21_WitnessNoCell ==
    /\ NetDecoded /\ SubtypeOf(inp.payload) = 8
    /\ Len(SatList(Cur)) = 2 /\ Len(Recs) = 1
    /\ Recs[1].gsys = SatList(Cur)[1].gsys
    /\ \A c \in 1..Len(CellList(Cur)) :
          CellList(Cur)[c].gsys = Recs[1].gsys => CellList(Cur)[c].mask = 0

C21_WitnessSt6 ==
    /\ NetDecoded /\ SubtypeOf(inp.payload) = 6
    /\ Len(SatList(Cur)) = 2 /\ Len(NetSelected(inp.payload)) = 1
    /\ Len(Recs) > 0

C21_WitnessSt9 ==
    /\ NetDecoded /\ SubtypeOf(inp.payload) = 9
    /\ Len(SatList(Cur)) = 2 /\ Len(NetSelected(inp.payload)) = 1
    /\ Len(Recs) = 4

C21_WitnessSt11 ==
    /\ NetDecoded /\ SubtypeOf(inp.payload) = 11
    /\ Len(SatList(Cur)) = 2 /\ Len(NetSelected(inp.payload)) = 1
    /\ Len(Recs) = 1

C21_WitnessSt12 ==
    /\ NetDecoded /\ SubtypeOf(inp.payload) = 12
    /\ Len(SatList(Cur)) = 2 /\ Len(NetSelected(inp.payload)) = 1
    /\ Len(NetSatRecs(1)) = 1

\* the records of the last call of the kind kd (subtype 12)
NetKind(kd) == SelectSeq(Recs, LAMBDA r : r.kind = kd)

\* the residual records of subtype 9
NetSt9Res == SelectSeq(Recs, LAMBDA r : "gsys" \in DOMAIN r)

\* the position of the troposphere residual size of the subtype-12 message p
NetTrsAt(p) ==
    52 + (IF p[38] = 0 THEN 0
          ELSE 17 + (IF Uint(Slice(p, 58, 60)) >= 1 THEN 14 ELSE 0)
                  + (IF Uint(Slice(p, 58, 60)) >= 2 THEN 7 ELSE 0))

\* ST9: the one-bit range at position 39 fixes the width of every residual
\* (16 bits when set, 7 when clear); ST12: the one-bit size before the
\* troposphere residuals fixes theirs (8 bits when set, 6 when clear)
NetRangeOnce ==
    /\ CssrDecoded({9}) =>
          \A k \in 1..Len(NetSt9Res) :
              /\ NetSt9Res[k].bw = IF inp.payload[40] = 1 THEN 16 ELSE 7
              /\ NetSt9Res[k].at > 39
    /\ CssrDecoded({12}) =>
          \A k \in 1..Len(NetKind("tropo_res")) :
              /\ NetKind("tropo_res")[k].bw =
                    IF inp.payload[NetTrsAt(inp.payload) + 1] = 1 THEN 8 ELSE 6
              /\ NetKind("tropo_res")[k].at > NetTrsAt(inp.payload)

\* C22: in ST9 and ST12 the range selector that fixes the residual width is
\* read once per message, before the residuals, and every residual of one
\* kind in the message has the width the selector names.
C22_RangeOnce ==
    /\ NetRangeOnce
    /\ CssrDecoded({12}) =>
          \A k, n \in 1..Len(NetKind("stec_res")) :
              NetKind("stec_res")[k].bw = NetKind("stec_res")[n].bw

\* subtype 12 decoded two satellites whose STEC residuals have different
\* widths (the STEC residual range is read for each satellite)
C22_Witness ==
    /\ CssrDecoded({12})
    /\ \E k, n \in 1..Len(NetKind("stec_res")) :
          /\ NetKind("stec_res")[k].bw = 4 /\ NetKind("stec_res")[n].bw = 7
          /\ NetKind("stec_res")[k].gsys # NetKind("stec_res")[n].gsys
          /\ NetKind("stec_res")[k].grid = 2

\* subtype 9 decoded residuals of 16 bits from a message whose range bit
\* is clear
C22_WitnessSt9 ==
    /\ CssrDecoded({9}) /\ Len(NetSt9Res) = 4 /\ NetSt9Res[4].bw = 16
    /\ inp.payload[40] = 0

\* subtype 12 decoded troposphere residuals of 8 bits from a message whose
\* residual size bit is clear
C22_WitnessTropo ==
    /\ CssrDecoded({12}) /\ Len(NetKind("tropo_res")) = 2
    /\ NetKind("tropo_res")[2].bw = 8
    /\ inp.payload[NetTrsAt(inp.payload) + 1] = 0

\* the last call was decode_cssr of a message of subtype n with a whole
\* header, whatever it returned
NetCalled(n) ==
    CssrCalled /\ HasHeader(inp.payload) /\ SubtypeOf(inp.payload) = n

\* the end of the STEC part of the first selected satellite of a subtype-12
\* message p whose STEC part begins at position at
NetStecEnd(p, at) == at + 6 + 2 + StecBits(Uint(Slice(p, at + 6, at + 8)))

\* C23: the STEC polynomial of a selected satellite whose type is t (read
\* once per message in ST8, per satellite in ST12) takes 14 bits, 24 more if
\* t >= 1, 10 more if t >= 2 and 16 more if t >= 3; terms that are absent are
\* not read (they stay INVALID); a payload that ends inside one of the
\* groups makes the decoder return 0.
C23_StecPolynomial ==
    LET p    == inp.payload
        nsat == Len(SatList(Cur))
        t8   == Uint(Slice(p, 37, 39))
        need == 44 + nsat + Len(NetSelected(p)) * (6 + StecBits(t8))
        at12 == NetStart(p) + nsat
        absent(r) ==
            /\ r.type < 1 => r.c01 = INVALID /\ r.c10 = INVALID
            /\ r.type < 2 => r.c11 = INVALID
            /\ r.type < 3 => r.c02 = INVALID /\ r.c20 = INVALID
    IN
    /\ NetCalled(8) /\ nsat > 0 /\ Len(p) >= 44 + nsat =>
          /\ out[inp.s].exc = ""
          /\ out[inp.s].pos = IF Len(p) < need THEN 0 ELSE need
          /\ \A k \in 1..Len(Recs) :
                /\ Recs[k].type = t8
                /\ Recs[k].at = 44 + nsat + (k - 1) * (6 + StecBits(t8))
                /\ absent(Recs[k])
    /\ CssrDecoded({12}) =>
          \A k \in 1..Len(NetKind("stec")) :
              LET r == NetKind("stec")[k] IN
              /\ r.type = Uint(Slice(p, r.at + 6, r.at + 8))
              /\ r.srs_at = NetStecEnd(p, r.at)
              /\ absent(r)
    /\ /\ NetCalled(12) /\ Len(p) >= 52 /\ p[40] = 1 /\ Len(p) >= at12
       /\ Len(NetSelected(p)) > 0
       /\ Len(p) < at12 + 22 \/ Len(p) < NetStecEnd(p, at12)
       => out[inp.s].exc = "" /\ out[inp.s].pos = 0

\* subtype 12 decoded two satellites whose polynomials have the types 1 and
\* 2, so one took 38 bits and the other 48
C23_Witness ==
    /\ CssrDecoded({12}) /\ Len(NetKind("stec")) = 2
    /\ NetKind("stec")[1].type = 1 /\ NetKind("stec")[2].type = 2
    /\ NetKind("stec")[2].srs_at - NetKind("stec")[2].at = 8 + 48

\* subtype 8 decoded a satellite with a polynomial of type 3
C23_WitnessSt8 ==
    /\ CssrDecoded({8}) /\ Len(Recs) = 2 /\ Recs[1].type = 3
    /\ Recs[2].at - Recs[1].at = 6 + 64

\* a payload that ends inside the last group of a polynomial of type 3 gave 0
C23_WitnessCut ==
    /\ NetCalled(8) /\ Uint(Slice(inp.payload, 37, 39)) = 3
    /\ Len(SatList(Cur)) = 2 /\ Len(NetSelected(inp.payload)) = 1
    /\ Len(inp.payload) >= 46 + 6 + 48
    /\ out[inp.s].pos = 0

C23_WitnessCutSt12 ==
    /\ NetCalled(12) /\ inp.payload[40] = 1 /\ Len(SatList(Cur)) = 2
    /\ Len(inp.payload) >= NetStart(inp.payload) + 2 + 22 + 24
    /\ Len(inp.payload) < NetStecEnd(inp.payload, NetStart(inp.payload) + 2)
    /\ out[inp.s].pos = 0

\* the bits of the orbit corrections of the stored satellites: IODE of 10
\* bits for Galileo and 8 bits otherwise, then 15 + 13 + 13 bits
NetOrbitBits ==
    SumSeq([k \in 1..Len(SatList(Cur)) |->
               (IF SatList(Cur)[k].satsys = "E" THEN 10 ELSE 8) + 15 + 13 + 13])

\* C24: decode_cssr_st2, which starts behind the header of 37 bits, returns
\* 37 plus w + 15 + 13 + 13 bits for every stored satellite (w = 10 for
\* Galileo, 8 otherwise), so 49 bits for a mask of one GPS satellite, and
\* returns 0 when the payload is shorter than that.
C24_OrbitLength ==
    NetCalled(2) =>
        /\ out[inp.s].exc = ""
        /\ out[inp.s].pos =
              IF Len(inp.payload) < 37 + NetOrbitBits THEN 0
              ELSE 37 + NetOrbitBits
        /\ out[inp.s].pos > 0 => Len(Recs) = Len(SatList(Cur))
        /\ (out[inp.s].pos > 0 /\ Len(SatList(Cur)) = 1
              /\ SatList(Cur)[1].satsys = "G")
           => out[inp.s].pos = 37 + 49

\* subtype 2 decoded a Galileo and a GPS satellite and returned 37 + 51 + 49
C24_Witness ==
    /\ CssrDecoded({2}) /\ Len(SatList(Cur)) = 2
    /\ SatList(Cur)[1].satsys = "E" /\ SatList(Cur)[2].satsys = "G"
    /\ out[inp.s].pos = 137 /\ Len(inp.payload) > 137

\* subtype 2 decoded one GPS satellite from a payload of 37 + 49 bits
C24_WitnessOne ==
    /\ CssrDecoded({2}) /\ Len(SatList(Cur)) = 1
    /\ out[inp.s].pos = 86 /\ Len(inp.payload) = 86

\* subtype 2 returned 0 for a payload one bit short of the second satellite
C24_WitnessShort ==
    /\ NetCalled(2) /\ out[inp.s].pos = 0
    /\ Len(inp.payload) = 37 + NetOrbitBits - 1

\* ------------------------------------------------ ephemeris field encodings

\* the value of the bits b read as two's complement
TwosComplement(b) ==
    IF b[1] = 0 THEN Uint(b)
    ELSE -Uint([i \in 1..(Len(b) - 1) |-> 1 - b[i + 1]]) - 1

\* the harmonic terms, angles, rates and clock coefficients of the Kepler
\* ephemerides, by the names of the raw record
EphSignedNames ==
    {"crs", "crc", "cuc", "cus", "cic", "cis",
     "m0", "omg0", "i0", "i0d", "omg", "omgn", "omgd", "omgd0", "idot",
     "dn", "dn0", "af0", "af1", "af2", "a0", "a1", "a2"}

\* the bits of the statement k of the layout in the payload p
EphBitsOf(p, layout, k) ==
    SubSeq(p, EphBits(SubSeq(layout, 1, k - 1), 1) + 1,
              EphBits(SubSeq(layout, 1, k), 1))

\* the last call decoded a whole ephemeris of one of the systems
EphDecoded(systems) ==
    EphCalled /\ eph.exc = "" /\ eph.satsys \in systems

\* C25: in the GPS, Galileo, QZSS, BeiDou and NavIC ephemerides the six
\* harmonic terms, the angles and rates and the clock coefficients are read
\* as n-bit two's complement: all ones is -1 and 10...0 is -2^(n-1).
C25_TwosComplement ==
    EphDecoded({"G", "E", "J", "C", "I"}) =>
        LET layout == EphLayout(eph.satsys, eph.mtype) IN
        \A k \in 1..Len(layout) :
            layout[k][1] \in EphSignedNames =>
                eph.raw[layout[k][1]]
                    = TwosComplement(EphBitsOf(eph.payload, layout, k))

\* the n-bit two's-complement encoding of v
TwosBits(v, n) ==
    IF v >= 0 THEN <<0>> \o Enc(v, n - 1)
    ELSE <<1>> \o [i \in 1..(n - 1) |-> 1 - Enc(-v - 1, n - 1)[i]]

Abs(v) == IF v < 0 THEN -v ELSE v

\* 2^(n-1) - 1 for n >= 2, computed without the value 2^(n-1)
SignMagnitudeMax(n) == (Pow2(n - 2) - 1) * 2 + 1

\* the number of bits the statements before statement k of a layout take
EphOffset(layout, k) == EphBits(layout, 1) - EphBits(layout, k)

\* the state vector (position, velocity, acceleration in x, y, z) and the
\* clock components of the GLONASS ephemeris
EphSignMagnitudeNames ==
    {"xn", "xnd", "xndd", "yn", "ynd", "yndd", "zn", "znd", "zndd",
     "gmn", "taun", "dtaun", "tauc", "tgps"}

\* C26: the GLONASS state vector and clock components are read as
\* sign-magnitude: one sign bit, then the magnitude; the result is
\* -magnitude when the sign bit is set and +magnitude otherwise, so a set
\* sign bit with magnitude 0 gives 0, the result of a field of n bits lies
\* in [-(2^(n-1)-1), 2^(n-1)-1], and there its absolute value is that of the
\* n-bit two's-complement encoding of the same number. The sign bit and the
\* magnitude are two reads: a payload that ends inside a magnitude ends the
\* decoder in ReadError with the sign bit consumed.
C26_SignMagnitude ==
    /\ eph.satsys = "R" /\ eph.exc = "ReadError" =>
        \E k \in 1..Len(EphLayoutR) :
            LET at == EphOffset(EphLayoutR, k)
                sm == EphLayoutR[k][3] = "sm"
            IN
            /\ at <= Len(eph.payload)
            /\ at + EphLayoutR[k][2] + (IF sm THEN 1 ELSE 0) > Len(eph.payload)
            /\ EphLayoutR[k][3] # "skip"
            /\ eph.pos = IF sm /\ at < Len(eph.payload) THEN at + 1 ELSE at
    /\ EphDecoded({"R"}) =>
        \A k \in 1..Len(EphLayoutR) :
            LET name == EphLayoutR[k][1]
                b    == EphBitsOf(eph.payload, EphLayoutR, k)
                mag  == Uint(Tail(b))
                v    == eph.raw[name]
            IN
            /\ name \in EphSignMagnitudeNames <=> EphLayoutR[k][3] = "sm"
            /\ name \in EphSignMagnitudeNames =>
                  /\ Len(b) = EphLayoutR[k][2] + 1
                  /\ v = IF b[1] = 1 THEN -mag ELSE mag
                  /\ mag = 0 => v = 0
                  /\ Abs(v) <= SignMagnitudeMax(Len(b))
                  /\ Abs(v) = Abs(TwosComplement(TwosBits(v, Len(b))))

\* a GLONASS ephemeris was decoded whose fields have the sign bit set and
\* the magnitude 0, and one whose fields have every bit set
C26_Witness ==
    /\ EphDecoded({"R"})
    /\ eph.payload[37] = 1 /\ eph.raw["xnd"] = 0 /\ eph.raw["tauc"] = 0

C26_WitnessMin ==
    /\ EphDecoded({"R"})
    /\ eph.raw["xn"] = -SignMagnitudeMax(27)
    /\ eph.raw["tauc"] = -SignMagnitudeMax(32)

\* a GLONASS payload ended inside the magnitude of tgps: the sign bit at 318
\* was read, the magnitude was not
C26_WitnessCut ==
    /\ eph.satsys = "R" /\ Len(eph.payload) = 339
    /\ eph.exc = "ReadError" /\ eph.pos = 319

\* --------------------------------------------- subtype 6 without network

\* the cells of the stored mask whose bit is set
NetActiveCells ==
    Cardinality({c \in 1..Len(CellList(Cur)) : CellList(Cur)[c].mask = 1})

\* C27: decode_cssr_st6 returns a position or 0 and raises nothing for
\* every combination of its three flags and every stored mask; with the
\* network flag clear it reads no subset mask and decodes the selected
\* biases (11 bits of code bias, 15 + 2 bits of phase bias) of every active
\* cell.
C27_St6Terminates ==
    NetCalled(6) /\ Len(inp.payload) >= 37 + 150 =>
        /\ out[inp.s].exc = ""
        /\ inp.payload[40] = 0 =>
              /\ Len(Recs) = NetActiveCells
              /\ out[inp.s].pos =
                    40 + NetActiveCells
                           * ((IF inp.payload[38] = 1 THEN 11 ELSE 0)
                                + (IF inp.payload[39] = 1 THEN 17 ELSE 0))

\* ------------------------------------------------- HAS correction decoders

\* the last call was one of the HAS correction decoders
HasCalled ==
    /\ inp.op \in {"has_orbit", "has_ckful", "has_cksub", "has_cbias", "has_pbias"}
    /\ inp.s \in Sessions

\* C28: every HAS correction decoder (orbit, full-set clock, subset clock,
\* code bias, phase bias) reads the 4-bit validity interval index first,
\* returns 0 when fewer than 4 bits remain, and on a payload that is long
\* enough ends normally at the position behind its body; the subset clock
\* body is 4 + 2 bits and 4 + 2 + 13 bits for each of its (field + 1)
\* subsets. The validity interval table has 16 entries, 5 s for index 0 and
\* 0 s for index 15.
C28_HasDecoders ==
    /\ Len(HAS_VI) = 16 /\ HAS_VI[0 + 1] = 5 /\ HAS_VI[15 + 1] = 0
    /\ HasCalled =>
          /\ out[inp.s].exc = ""
          /\ Len(inp.payload) < 4 => out[inp.s].pos = 0
          /\ Len(inp.payload) >= 4 =>
                LET body == 4 + 2 + (Uint(Slice(inp.payload, 4, 6)) + 1)
                                        * (4 + 2 + 13)
                IN
                /\ inp.op # "has_cksub" =>
                      out[inp.s].pos >= 4 /\ out[inp.s].pos <= Len(inp.payload)
                /\ inp.op = "has_cksub" /\ Len(inp.payload) >= body =>
                      out[inp.s].pos = body

\* ------------------------------------------------------------- statistics

\* the bits counted for satellites, for signals and for both
StatSum(st) == st.stat_bsat + st.stat_bsig + st.stat_both

\* the step is a call of decode_cssr in session s with a message of a
\* subtype in sts that has its whole header
StatStep(s, sts) ==
    /\ inp'.op = "cssr" /\ inp'.s = s
    /\ HasHeader(inp'.payload) /\ SubtypeOf(inp'.payload) \in sts
    /\ out'[s].exc = ""

\* C29: a successful mask decode sets stat_bsat, stat_bsig and stat_bnull to
\* 0 and stat_both to the position it returns; a successful decode of a
\* subtype 2..12 then adds exactly the position it returns to stat_bsat +
\* stat_bsig + stat_both and leaves stat_bnull; a decode that returns 0
\* changes no counter; no counter is ever negative.
C29_Statistics ==
    [][\A s \in Sessions :
          /\ StatStep(s, {1}) /\ out'[s].pos > 0 =>
                StatsOf(View(s))' =
                    [stat_bsat |-> 0, stat_bsig |-> 0, stat_bnull |-> 0,
                     stat_both |-> out'[s].pos]
          /\ StatStep(s, 2..12) /\ out'[s].pos > 0 =>
                /\ StatSum(View(s))' = StatSum(View(s)) + out'[s].pos
                /\ View(s)'.stat_bnull = View(s).stat_bnull
          /\ StatStep(s, 2..12) /\ out'[s].pos = 0 =>
                StatsOf(View(s))' = StatsOf(View(s))
          /\ \A k \in StatAttrs : View(s)'[k] >= 0]_vars

\* subtype 11 with network correction was decoded after a mask, and the
\* counters hold the bits of the two messages
C29_Witness ==
    /\ CssrDecoded({11}) /\ inp.payload[40] = 1 /\ ncalls = 2
    /\ Len(Recs) > 0
    /\ Cur.stat_bsat > 0 /\ Cur.stat_bnull = 0
    /\ StatSum(Cur) = Len(hist[inp.s][1]) + out[inp.s].pos

\* a message cut inside a field was refused and the counters are those the
\* mask left
C29_WitnessRefused ==
    /\ NetCalled(8) /\ out[inp.s].pos = 0 /\ out[inp.s].exc = ""
    /\ ncalls = 2 /\ Cur.stat_both = Len(hist[inp.s][1])
    /\ Cur.stat_bsat = 0 /\ Cur.stat_bsig = 0

\* ------------------------------------------------------- ephemeris lengths

\* the bits of the ephemeris of a system (and of a Galileo message type)
EphLength(satsys, mtype) ==
    CASE satsys = "G" -> 476
      [] satsys = "R" -> 348
      [] satsys = "E" /\ mtype = "F/NAV" -> 484
      [] satsys = "E" /\ mtype = "I/NAV" -> 492
      [] satsys = "J" -> 473
      [] satsys = "C" -> 499
      [] satsys = "I" -> 470

\* C30: decode_ephemerides advances the payload position by a number of
\* bits that depends on the system and, for Galileo, the message type only,
\* whatever the fields hold: GPS 476, GLONASS 348, Galileo F/NAV 484,
\* Galileo I/NAV 492, QZSS 473, BeiDou 499, NavIC 470.
C30_EphemerisLength ==
    EphDecoded(EphSatSys) => eph.pos = EphLength(eph.satsys, eph.mtype)

\* a Galileo F/NAV ephemeris whose fields are all set, followed by other
\* data, was decoded
C30_Witness ==
    /\ EphDecoded({"E"}) /\ eph.mtype = "F/NAV"
    /\ eph.raw["crs"] = -1 /\ Len(eph.payload) > eph.pos

\* a NavIC ephemeris whose fields are all clear was decoded
C30_WitnessNavIC ==
    /\ EphDecoded({"I"}) /\ eph.raw["crs"] = 0 /\ eph.pos = 470

====
